---- MODULE Spec2Model ----
(***************************************************************************)
(* A model of the Excel generation API: the request pipeline of            *)
(* src/api/utils/excelUtils.ts (router), the middlewares of                *)
(* src/unnamed/part_000 (validation, upload), the controllers of           *)
(* src/api/controllers/excelController.ts, the global error handler of     *)
(* src/api/server.ts and the workbook assembler generateWorkbook.          *)
(*                                                                         *)
(* Strings that the code inspects character by character (cell references) *)
(* are sequences of one-character strings.  A dotted path is a sequence of *)
(* symbols, "." being the separator and every other symbol one whole key.  *)
(* Other strings (names, messages) are TLA+ strings.                       *)
(***************************************************************************)
EXTENDS Integers, Sequences, FiniteSets, TLC

(***************************************************************************)
(* Bounds of the model.                                                    *)
(***************************************************************************)
\* the longest array of bulk requests
MaxBulk == 3

\* the longest run of column letters converted to a number
MaxLetters == 2

\* the largest column number converted to letters
MaxColumn == 800

\* the most segments of a dotted path resolved on its own
MaxPath == 3

\* the most data rows of a table built on its own
MaxRows == 2

\* the most mappings, and the most tables, of a call whose writes overlap
MaxWrites == 3

\* the most calls of generateWorkbook in flight together
MaxCalls == 2

(***************************************************************************)
(* JavaScript values.  Every value is a record of the same shape, so that  *)
(* any two of them can be compared: t is the type tag, n/s/b the payload   *)
(* of a number/string/boolean, o the properties of an object (a function   *)
(* from key to value) and a the elements of an array.                      *)
(***************************************************************************)
NoProps == [k \in {} |-> 0]

JsValue(t, n, s, b, o, a) == [t |-> t, n |-> n, s |-> s, b |-> b, o |-> o, a |-> a]

Undefined == JsValue("undefined", 0, "", FALSE, NoProps, <<>>)

JNull == JsValue("null", 0, "", FALSE, NoProps, <<>>)

JNum(n) == JsValue("num", n, "", FALSE, NoProps, <<>>)

JStr(s) == JsValue("str", 0, s, FALSE, NoProps, <<>>)

JBool(b) == JsValue("bool", 0, "", b, NoProps, <<>>)

JObj(f) == JsValue("obj", 0, "", FALSE, f, <<>>)

JArr(q) == JsValue("arr", 0, "", FALSE, NoProps, q)

\* JavaScript truthiness: what `x && ...`, `x || ...`, `if (x)` and `!x` test
Truthy(v) ==
  CASE v.t = "undefined" -> FALSE
    [] v.t = "null" -> FALSE
    [] v.t = "num" -> v.n # 0
    [] v.t = "str" -> v.s # ""
    [] v.t = "bool" -> v.b
    [] OTHER -> TRUE

DigitChars == <<"0", "1", "2", "3", "4", "5", "6", "7", "8", "9">>

IsDigit(c) == \E i \in 1..Len(DigitChars) : DigitChars[i] = c

DigitValue(c) == (CHOOSE i \in 1..Len(DigitChars) : DigitChars[i] = c) - 1

\* a function of the runtime, such as the constructor every value inherits
JFunction(name) == JsValue("function", 0, name, FALSE, NoProps, <<>>)

\* value.constructor
Constructor(v) ==
  CASE v.t = "obj" -> JFunction("Object")
    [] v.t = "arr" -> JFunction("Array")
    [] v.t = "str" -> JFunction("String")
    [] v.t = "num" -> JFunction("Number")
    [] v.t = "bool" -> JFunction("Boolean")
    [] OTHER -> JFunction("Function")

\* current[key] of a value that is neither null nor undefined: an own
\* property of an object, an element or the length of an array, the length
\* of a string, the constructor inherited from the prototype, or undefined.
\* The keys of the model are never another inherited name, and never an
\* index into a string or an index of two digits.
GetProp(v, key) ==
  CASE v.t = "obj" /\ key \in DOMAIN v.o -> v.o[key]
    [] v.t = "arr" /\ key = "length" -> JNum(Len(v.a))
    [] v.t = "arr" /\ IsDigit(key) /\ DigitValue(key) < Len(v.a) -> v.a[DigitValue(key) + 1]
    [] v.t = "str" /\ key = "length" -> JNum(Len(v.s))
    [] v.t \notin {"undefined", "null"} /\ key = "constructor" -> Constructor(v)
    [] OTHER -> Undefined

(***************************************************************************)
(* path.split('.'): the segments between the separators; a path without    *)
(* separator is one segment, an empty path one empty segment.              *)
(***************************************************************************)
RECURSIVE SplitFrom(_, _, _)
SplitFrom(path, i, cur) ==
  IF i > Len(path) THEN <<cur>>
  ELSE IF path[i] = "." THEN <<cur>> \o SplitFrom(path, i + 1, <<>>)
  ELSE SplitFrom(path, i + 1, Append(cur, path[i]))

Split(path) == SplitFrom(path, 1, <<>>)

\* the key a segment spells: a symbol is a whole key, no symbol the empty key
RECURSIVE SegmentKey(_)
SegmentKey(seg) == IF seg = <<>> THEN "" ELSE seg[1] \o SegmentKey(Tail(seg))

\* one step of the reduce: current && current[key] !== undefined ? current[key] : null
NestedStep(current, key) ==
  IF Truthy(current) /\ GetProp(current, key) # Undefined
  THEN GetProp(current, key)
  ELSE JNull

RECURSIVE ReduceNested(_, _, _)
ReduceNested(current, segs, i) ==
  IF i > Len(segs) THEN current
  ELSE ReduceNested(NestedStep(current, SegmentKey(segs[i])), segs, i + 1)

getNestedValue(obj, path) == ReduceNested(obj, Split(path), 1)

(***************************************************************************)
(* Cell references.                                                        *)
(***************************************************************************)
UpperLetters ==
  <<"A", "B", "C", "D", "E", "F", "G", "H", "I", "J", "K", "L", "M",
    "N", "O", "P", "Q", "R", "S", "T", "U", "V", "W", "X", "Y", "Z">>

IsUpper(c) == \E i \in 1..Len(UpperLetters) : UpperLetters[i] = c

\* letter.charCodeAt(i) - 'A'.charCodeAt(0) + 1
LetterValue(c) == CHOOSE i \in 1..Len(UpperLetters) : UpperLetters[i] = c

\* the text of a sequence of characters
RECURSIVE Text(_)
Text(cs) == IF cs = <<>> THEN "" ELSE cs[1] \o Text(Tail(cs))

\* the number of leading capital letters of a reference
RECURSIVE LettersPrefix(_)
LettersPrefix(ref) ==
  IF ref # <<>> /\ IsUpper(ref[1]) THEN 1 + LettersPrefix(Tail(ref)) ELSE 0

\* /^[A-Z]+[0-9]+$/ : one or more capital letters, then one or more digits
MatchesCellPattern(ref) ==
  LET k == LettersPrefix(ref)
  IN  /\ k >= 1
      /\ k < Len(ref)
      /\ \A i \in (k + 1)..Len(ref) : IsDigit(ref[i])

\* the two groups of the match
MatchLetters(ref) == SubSeq(ref, 1, LettersPrefix(ref))

MatchDigits(ref) == SubSeq(ref, LettersPrefix(ref) + 1, Len(ref))

RECURSIVE LetterFold(_, _, _)
LetterFold(letter, i, result) ==
  IF i > Len(letter) THEN result
  ELSE LetterFold(letter, i + 1, result * 26 + LetterValue(letter[i]))

columnLetterToNumber(letter) == LetterFold(letter, 1, 0)

RECURSIVE NumberFold(_, _)
NumberFold(num, result) ==
  IF num > 0
  THEN NumberFold((num - 1) \div 26, <<UpperLetters[((num - 1) % 26) + 1]>> \o result)
  ELSE result

\* the conversion in plain base 26 (A = 0), without the `num--` of each turn
RECURSIVE numberToColumnLetterBase26(_)
numberToColumnLetterBase26(num) ==
  IF num > 0
  THEN numberToColumnLetterBase26(num \div 26) \o <<UpperLetters[(num % 26) + 1]>>
  ELSE <<>>

numberToColumnLetter(num) == NumberFold(num, <<>>)

RECURSIVE DigitFold(_, _, _)
DigitFold(ds, i, result) ==
  IF i > Len(ds) THEN result
  ELSE DigitFold(ds, i + 1, result * 10 + DigitValue(ds[i]))

\* parseInt of a run of digits
parseInt(ds) == DigitFold(ds, 1, 0)

(***************************************************************************)
(* The workbook of the spreadsheet library: an ordered list of sheets,     *)
(* each a grid of cells addressed by <<row, column>>, its registered       *)
(* tables, its column widths, its view and its protection.                 *)
(***************************************************************************)
NoFont == [color |-> "", size |-> 0, bold |-> FALSE, italic |-> FALSE, underline |-> FALSE]

\* a cell nothing was written to
BlankCell ==
  [value |-> JNull, isFormula |-> FALSE, formula |-> "", fill |-> "",
   font |-> NoFont, numFmt |-> ""]

NoCells == [k \in {} |-> BlankCell]

NewSheet(name) ==
  [name |-> name, cells |-> NoCells, tables |-> <<>>, widths |-> <<>>,
   frozen |-> FALSE, protected |-> FALSE, password |-> ""]

\* new ExcelJS.Workbook()
NewWorkbook == [sheets |-> <<>>]

\* workbook.getWorksheet(name): the position of the sheet, 0 when there is none
getWorksheet(wb, name) ==
  IF \E i \in 1..Len(wb.sheets) : wb.sheets[i].name = name
  THEN CHOOSE i \in 1..Len(wb.sheets) : wb.sheets[i].name = name
  ELSE 0

addWorksheet(wb, name) == [wb EXCEPT !.sheets = Append(@, NewSheet(name))]

\* let worksheet = workbook.getWorksheet(name); if (!worksheet) worksheet = workbook.addWorksheet(name)
EnsureSheet(wb, name) == IF getWorksheet(wb, name) = 0 THEN addWorksheet(wb, name) ELSE wb

CellAt(sheet, key) == IF key \in DOMAIN sheet.cells THEN sheet.cells[key] ELSE BlankCell

PutCell(sheet, key, cell) ==
  [sheet EXCEPT !.cells =
     [k \in (DOMAIN sheet.cells) \cup {key} |-> IF k = key THEN cell ELSE sheet.cells[k]]]

\* the cell a reference that matches the pattern names
CellKey(ref) == <<parseInt(MatchDigits(ref)), columnLetterToNumber(MatchLetters(ref))>>

\* the cell the library resolves a reference outside the pattern to, when
\* it accepts it: some cell of the library's choice
LenientKey == <<0, 0>>

(***************************************************************************)
(* Buffers: the bytes of a workbook (what writeBuffer returns and load     *)
(* reads back), bytes load rejects with an Error, bytes it rejects with a  *)
(* value that is no Error, or no buffer at all.                            *)
(***************************************************************************)
NoBuffer == [kind |-> "none", wb |-> NewWorkbook]

XlsxBuffer(wb) == [kind |-> "xlsx", wb |-> wb]

CorruptBuffer == [kind |-> "corrupt", wb |-> NewWorkbook]

UnreadableBuffer == [kind |-> "unreadable", wb |-> NewWorkbook]

\* the message of the Error the library's load rejects corrupt bytes with
LoadErrorMessage == "Can't find end of central directory : is this a zip file ?"

(***************************************************************************)
(* Mapping and table descriptors, options.                                 *)
(***************************************************************************)
NoStyle ==
  [defined |-> FALSE, bgColor |-> "", fontColor |-> "", fontSize |-> 0,
   bold |-> FALSE, italic |-> FALSE, underline |-> FALSE]

MappingConfig(sheet, cell, fieldName, formula, style, format) ==
  [sheet |-> sheet, cell |-> cell, fieldName |-> fieldName, formula |-> formula,
   style |-> style, format |-> format]

NoTableStyle ==
  [headerBgColor |-> "", headerFontColor |-> "", rowBgColor |-> "",
   alternateRowBgColor |-> ""]

TableConfig(sheet, tableName, startCell, columns, style) ==
  [sheet |-> sheet, tableName |-> tableName, startCell |-> startCell,
   columns |-> columns, style |-> style]

ExcelOptions(autoFit, freeze, protect, password) ==
  [autoFitColumns |-> autoFit, freezeFirstRow |-> freeze, protectSheet |-> protect,
   password |-> password]

\* options = {}
NoOptions == ExcelOptions(Undefined, Undefined, Undefined, Undefined)

\* an array argument that may be missing (undefined)
Missing == [defined |-> FALSE, items |-> <<>>]

Given(items) == [defined |-> TRUE, items |-> items]

(***************************************************************************)
(* applyCellStyle and applyCellFormat.                                     *)
(***************************************************************************)
applyCellStyle(cell, style) ==
  IF ~style.defined THEN cell
  ELSE [cell EXCEPT
          !.fill = IF style.bgColor # "" THEN "FF" \o style.bgColor ELSE @,
          !.font = [color |-> IF style.fontColor # "" THEN "FF" \o style.fontColor
                              ELSE @.color,
                    size |-> IF style.fontSize # 0 THEN style.fontSize ELSE @.size,
                    bold |-> style.bold \/ @.bold,
                    italic |-> style.italic \/ @.italic,
                    underline |-> style.underline \/ @.underline]]

\* format.toLowerCase(), on the format names of the model
ToLowerCase(s) ==
  CASE s = "Currency" -> "currency"
    [] s = "PERCENTAGE" -> "percentage"
    [] OTHER -> s

\* the number format a format name stands for; any other string is used as it is
NumberFormat(format, lower) ==
  CASE lower = "currency" -> "$#,##0.00"
    [] lower = "percentage" -> "0.00%"
    [] lower = "date" -> "mm/dd/yyyy"
    [] lower = "datetime" -> "mm/dd/yyyy hh:mm:ss"
    [] lower = "number" -> "#,##0.00"
    [] lower = "integer" -> "#,##0"
    [] OTHER -> format

applyCellFormat(cell, format) ==
  IF format = "" THEN cell
  ELSE [cell EXCEPT !.numFmt = NumberFormat(format, ToLowerCase(format))]

(***************************************************************************)
(* createTable.  The result is the sheet as the call leaves it and, when   *)
(* the call throws, the message of the error.                              *)
(***************************************************************************)
\* the decimal text of a natural number
RECURSIVE NumberText(_)
NumberText(n) ==
  IF n < 10 THEN DigitChars[n + 1]
  ELSE NumberText(n \div 10) \o DigitChars[(n % 10) + 1]

Returned(sheet) == [sheet |-> sheet, thrown |-> FALSE, message |-> ""]

Thrown(sheet, message) == [sheet |-> sheet, thrown |-> TRUE, message |-> message]

\* the fill of a data cell without the fallback of the odd rows to rowBgColor
RowFillWithoutFallback(style, rowIndex) ==
  IF style.rowBgColor # "" \/ style.alternateRowBgColor # ""
  THEN LET bgColor == IF rowIndex % 2 = 0 THEN style.rowBgColor
                      ELSE style.alternateRowBgColor
       IN  IF bgColor # "" THEN "FF" \o bgColor ELSE ""
  ELSE ""

\* the fill of a data cell of row rowIndex: "" when no fill is applied
RowFill(style, rowIndex) ==
  IF style.rowBgColor # "" \/ style.alternateRowBgColor # ""
  THEN LET bgColor == IF rowIndex % 2 = 0 THEN style.rowBgColor
                      ELSE IF style.alternateRowBgColor # "" THEN style.alternateRowBgColor
                      ELSE style.rowBgColor
       IN  IF bgColor # "" THEN "FF" \o bgColor ELSE ""
  ELSE ""

\* cell.value = v, then the row's fill
WriteDataCell(sheet, key, v, fill) ==
  PutCell(sheet, key,
          [CellAt(sheet, key) EXCEPT !.value = v, !.isFormula = FALSE, !.formula = "",
                                     !.fill = IF fill # "" THEN fill ELSE @])

\* cell.value = header, then the header's fill and font
HeaderCell(cell, header, style) ==
  [cell EXCEPT !.value = JStr(header), !.isFormula = FALSE, !.formula = "",
               !.fill = IF style.headerBgColor # "" THEN "FF" \o style.headerBgColor ELSE @,
               !.font = IF style.headerFontColor # ""
                        THEN [NoFont EXCEPT !.color = "FF" \o style.headerFontColor,
                                            !.bold = TRUE]
                        ELSE [NoFont EXCEPT !.bold = TRUE]]

\* tableConfig.columns.forEach((header, index) => ...): the header row
RECURSIVE WriteHeaders(_, _, _, _, _)
WriteHeaders(sheet, tc, startRow, startCol, index) ==
  IF index >= Len(tc.columns) THEN sheet
  ELSE WriteHeaders(
         PutCell(sheet, <<startRow, startCol + index>>,
                 HeaderCell(CellAt(sheet, <<startRow, startCol + index>>),
                            tc.columns[index + 1], tc.style)),
         tc, startRow, startCol, index + 1)

\* row.forEach((cellValue, colIndex) => ...) of a value-list row
RECURSIVE WriteArrayRow(_, _, _, _, _, _, _)
WriteArrayRow(sheet, tc, row, rowIndex, currentRow, startCol, colIndex) ==
  IF colIndex >= Len(row.a) THEN sheet
  ELSE WriteArrayRow(
         IF colIndex < Len(tc.columns)
         THEN WriteDataCell(sheet, <<currentRow, startCol + colIndex>>,
                            row.a[colIndex + 1], RowFill(tc.style, rowIndex))
         ELSE sheet,
         tc, row, rowIndex, currentRow, startCol, colIndex + 1)

\* row[column] || ''
ObjectCellValue(row, column) ==
  IF Truthy(GetProp(row, column)) THEN GetProp(row, column) ELSE JStr("")

\* tableConfig.columns.forEach((column, colIndex) => ...) of an object row
RECURSIVE WriteObjectRow(_, _, _, _, _, _, _)
WriteObjectRow(sheet, tc, row, rowIndex, currentRow, startCol, colIndex) ==
  IF colIndex >= Len(tc.columns) THEN sheet
  ELSE WriteObjectRow(
         WriteDataCell(sheet, <<currentRow, startCol + colIndex>>,
                       ObjectCellValue(row, tc.columns[colIndex + 1]),
                       RowFill(tc.style, rowIndex)),
         tc, row, rowIndex, currentRow, startCol, colIndex + 1)

\* a row reading whose property throws a TypeError: typeof null === 'object'
RowThrows(tc, row) == row.t = "null" /\ Len(tc.columns) > 0

\* the cells of one data row
WriteRow(sheet, tc, row, rowIndex, currentRow, startCol) ==
  CASE row.t = "arr" -> WriteArrayRow(sheet, tc, row, rowIndex, currentRow, startCol, 0)
    [] row.t = "obj" -> WriteObjectRow(sheet, tc, row, rowIndex, currentRow, startCol, 0)
    [] OTHER -> sheet

\* tableData.forEach((row, rowIndex) => ...): the data rows, up to the first
\* row that throws
RECURSIVE WriteRows(_, _, _, _, _, _)
WriteRows(sheet, tc, rows, startRow, startCol, rowIndex) ==
  IF rowIndex >= Len(rows) THEN Returned(sheet)
  ELSE IF RowThrows(tc, rows[rowIndex + 1])
  THEN Thrown(sheet, "Cannot read properties of null")
  ELSE WriteRows(WriteRow(sheet, tc, rows[rowIndex + 1], rowIndex,
                          startRow + rowIndex + 1, startCol),
                 tc, rows, startRow, startCol, rowIndex + 1)

\* Array.isArray(row) ? row : tableConfig.columns.map(col => row[col] || '')
TableRow(tc, row) ==
  IF row.t = "arr" THEN row.a
  ELSE [j \in 1..Len(tc.columns) |-> ObjectCellValue(row, tc.columns[j])]

\* the reference of a table whose last row is counted without the header row
TableRefWithoutHeader(tc, rows, startRow, startCol) ==
  Text(tc.startCell) \o ":"
  \o Text(numberToColumnLetter(startCol + Len(tc.columns) - 1))
  \o NumberText(startRow + Len(rows) - 1)

\* the reference of the table: `${startCell}:${endCol}${endRow}`
TableRef(tc, rows, startRow, startCol) ==
  Text(tc.startCell) \o ":"
  \o Text(numberToColumnLetter(startCol + Len(tc.columns) - 1))
  \o NumberText(startRow + Len(rows))

\* worksheet.addTable({...})
addTable(sheet, tc, rows, startRow, startCol) ==
  [sheet EXCEPT !.tables =
     Append(@, [name |-> tc.tableName, ref |-> TableRef(tc, rows, startRow, startCol),
                headerRow |-> TRUE, theme |-> "TableStyleMedium9",
                showRowStripes |-> TRUE, columns |-> tc.columns,
                rows |-> [i \in 1..Len(rows) |-> TableRow(tc, rows[i])]])]

\* the table is registered when every row was written
RegisterTable(written, tc, rows, startRow, startCol) ==
  IF written.thrown THEN written
  ELSE Returned(addTable(written.sheet, tc, rows, startRow, startCol))

\* the data rows below the headers: forEach is a method of arrays only
FillTable(headed, tc, tableData, startRow, startCol) ==
  IF tableData.t # "arr"
  THEN Thrown(headed, "tableData.forEach is not a function")
  ELSE RegisterTable(WriteRows(headed, tc, tableData.a, startRow, startCol, 0),
                     tc, tableData.a, startRow, startCol)

\* createTable with the start cell matched before the guard on the data: a
\* bad start cell throws with no data as well
createTableCheckingFirst(sheet, tc, tableData) ==
  IF ~MatchesCellPattern(tc.startCell)
  THEN Thrown(sheet, "Invalid start cell: " \o Text(tc.startCell))
  ELSE IF ~Truthy(tableData) \/ (tableData.t = "arr" /\ Len(tableData.a) = 0)
  THEN Returned(sheet)
  ELSE FillTable(WriteHeaders(sheet, tc, parseInt(MatchDigits(tc.startCell)),
                              columnLetterToNumber(MatchLetters(tc.startCell)), 0),
                 tc, tableData, parseInt(MatchDigits(tc.startCell)),
                 columnLetterToNumber(MatchLetters(tc.startCell)))

\* createTable with a guard that lets an empty array pass
createTableOfEmptyArray(sheet, tc, tableData) ==
  IF ~Truthy(tableData)
  THEN Returned(sheet)
  ELSE IF ~MatchesCellPattern(tc.startCell)
  THEN Thrown(sheet, "Invalid start cell: " \o Text(tc.startCell))
  ELSE FillTable(WriteHeaders(sheet, tc, parseInt(MatchDigits(tc.startCell)),
                              columnLetterToNumber(MatchLetters(tc.startCell)), 0),
                 tc, tableData, parseInt(MatchDigits(tc.startCell)),
                 columnLetterToNumber(MatchLetters(tc.startCell)))

createTable(sheet, tc, tableData) ==
  IF ~Truthy(tableData) \/ (tableData.t = "arr" /\ Len(tableData.a) = 0)
  THEN Returned(sheet)
  ELSE IF ~MatchesCellPattern(tc.startCell)
  THEN Thrown(sheet, "Invalid start cell: " \o Text(tc.startCell))
  ELSE FillTable(WriteHeaders(sheet, tc, parseInt(MatchDigits(tc.startCell)),
                              columnLetterToNumber(MatchLetters(tc.startCell)), 0),
                 tc, tableData, parseInt(MatchDigits(tc.startCell)),
                 columnLetterToNumber(MatchLetters(tc.startCell)))

(***************************************************************************)
(* generateWorkbook.                                                       *)
(*                                                                         *)
(* The calls into the spreadsheet library are the environment of the       *)
(* function; fault names the one that throws during a call, if any:        *)
(*   "getCell"     getCell rejects a reference outside the pattern (the    *)
(*                 library is otherwise free to accept it),                *)
(*   "autofit"     getColumn / the width assignment throws,                *)
(*   "protect"     worksheet.protect throws,                               *)
(*   "write"       writeBuffer rejects with an Error.                      *)
(* A load that rejects with a value that is no Error is a property of the  *)
(* template buffer (UnreadableBuffer).                                     *)
(* A run is the workbook, the steps begun so far (<<name, index>>), the    *)
(* exceptions raised so far and whether one of them left the try block.    *)
(***************************************************************************)
Faults == {"none", "getCell", "autofit", "protect", "write"}

\* columns 1..AutoFitColumns get the width AutoFitWidth
AutoFitColumns == 10

AutoFitWidth == 15

StartRun == [wb |-> NewWorkbook, steps |-> <<>>, raised |-> <<>>, failed |-> FALSE]

Begin(run, step) == [run EXCEPT !.steps = Append(@, step)]

Exception(step, isError, message, swallowed) ==
  [at |-> step, isError |-> isError, message |-> message, swallowed |-> swallowed]

\* an exception that leaves the try block: the catch of generateWorkbook gets it
Raise(run, step, isError, message) ==
  [run EXCEPT !.raised = Append(@, Exception(step, isError, message, FALSE)),
              !.failed = TRUE]

\* an exception caught where it was raised and only logged
Swallow(run, step, isError, message) ==
  [run EXCEPT !.raised = Append(@, Exception(step, isError, message, TRUE))]

\* the run of a call whose workbook is wb
RunOn(wb) == [StartRun EXCEPT !.wb = wb]

\* if (templateBuffer) await workbook.xlsx.load(templateBuffer) else workbook.addWorksheet('Sheet1'),
\* on the workbook of the run: the load replaces what the workbook holds
LoadInto(start, templateBuffer) ==
  IF templateBuffer.kind # "none"
  THEN LET run == Begin(start, <<"load", 0>>)
       IN  CASE templateBuffer.kind = "xlsx" -> [run EXCEPT !.wb = templateBuffer.wb]
             [] templateBuffer.kind = "corrupt" ->
                  Raise(run, <<"load", 0>>, TRUE, LoadErrorMessage)
             [] OTHER -> Raise(run, <<"load", 0>>, FALSE, "")
  ELSE [Begin(start, <<"addWorksheet", 0>>) EXCEPT
          !.wb = addWorksheet(start.wb, "Sheet1")]

\* the load on the workbook the call has just created
LoadStep(templateBuffer) == LoadInto(StartRun, templateBuffer)

\* the value a mapping stores in its cell
MappedCell(cell, mapping, value) ==
  IF mapping.formula # ""
  THEN [cell EXCEPT !.isFormula = TRUE, !.formula = mapping.formula,
                    !.value = IF Truthy(value) THEN value ELSE JNum(0)]
  ELSE [cell EXCEPT !.isFormula = FALSE, !.formula = "",
                    !.value = IF value # JNull THEN value ELSE JStr("")]

\* the cell of the mapping, on sheet k: value, then style, then format
WriteMapping(run, k, key, mapping, value) ==
  [run EXCEPT !.wb.sheets[k] =
     PutCell(@, key,
             applyCellFormat(
               applyCellStyle(MappedCell(CellAt(@, key), mapping, value), mapping.style),
               mapping.format))]

\* worksheet.getCell(mapping.cell) and what follows it
ResolveMapping(run, step, jsonData, mapping, fault) ==
  IF ~MatchesCellPattern(mapping.cell) /\ fault = "getCell"
  THEN Raise(run, step, TRUE, "Invalid address: " \o Text(mapping.cell))
  ELSE WriteMapping(run, getWorksheet(run.wb, mapping.sheet),
                    IF MatchesCellPattern(mapping.cell) THEN CellKey(mapping.cell)
                    ELSE LenientKey,
                    mapping, getNestedValue(jsonData, mapping.fieldName))

\* one turn of `for (const mapping of mappingConfig)`
MappingStep(run, jsonData, mapping, i, fault) ==
  ResolveMapping([Begin(run, <<"mapping", i>>) EXCEPT !.wb = EnsureSheet(@, mapping.sheet)],
                 <<"mapping", i>>, jsonData, mapping, fault)

RECURSIVE MappingLoop(_, _, _, _, _)
MappingLoop(run, jsonData, mappings, i, fault) ==
  IF run.failed \/ i > Len(mappings) THEN run
  ELSE MappingLoop(MappingStep(run, jsonData, mappings[i], i, fault),
                   jsonData, mappings, i + 1, fault)

\* `for (const mapping of mappingConfig)`: undefined is not iterable
ProcessMappings(run, jsonData, mappingConfig, fault) ==
  IF run.failed THEN run
  ELSE IF ~mappingConfig.defined
  THEN Raise(Begin(run, <<"mapping", 0>>), <<"mapping", 0>>, TRUE,
             "mappingConfig is not iterable")
  ELSE MappingLoop(run, jsonData, mappingConfig.items, 1, fault)

\* getNestedValue(jsonData, 'tableData') || jsonData.tableData
TableData(jsonData) ==
  IF Truthy(getNestedValue(jsonData, <<"tableData">>))
  THEN getNestedValue(jsonData, <<"tableData">>)
  ELSE GetProp(jsonData, "tableData")

\* the sheet createTable leaves, and its error if it threw
TableOutcome(run, step, k, made) ==
  IF made.thrown
  THEN Raise([run EXCEPT !.wb.sheets[k] = made.sheet], step, TRUE, made.message)
  ELSE [run EXCEPT !.wb.sheets[k] = made.sheet]

\* if (tableData) createTable(worksheet, tableConfig, tableData)
TableOnSheet(run, step, k, tc, tableData) ==
  IF ~Truthy(tableData) THEN run
  ELSE TableOutcome(run, step, k, createTable(run.wb.sheets[k], tc, tableData))

\* the read of the table data: jsonData.tableData throws when jsonData is
\* null or undefined
TableBegun(run, step, jsonData, tc) ==
  IF jsonData.t \in {"null", "undefined"}
  THEN Raise(run, step, TRUE, "Cannot read properties of undefined (reading 'tableData')")
  ELSE TableOnSheet(run, step, getWorksheet(run.wb, tc.sheet), tc, TableData(jsonData))

\* one turn of the loop that takes the rows from the field named after the
\* table when the document has one
TableStepOwnData(run, jsonData, tc, i) ==
  IF Truthy(GetProp(jsonData, tc.tableName))
  THEN TableOnSheet([Begin(run, <<"table", i>>) EXCEPT !.wb = EnsureSheet(@, tc.sheet)],
                    <<"table", i>>,
                    getWorksheet(EnsureSheet(run.wb, tc.sheet), tc.sheet), tc,
                    GetProp(jsonData, tc.tableName))
  ELSE TableBegun([Begin(run, <<"table", i>>) EXCEPT !.wb = EnsureSheet(@, tc.sheet)],
                  <<"table", i>>, jsonData, tc)

\* one turn of `for (const tableConfig of tableConfigs)`
TableStep(run, jsonData, tc, i) ==
  TableBegun([Begin(run, <<"table", i>>) EXCEPT !.wb = EnsureSheet(@, tc.sheet)],
             <<"table", i>>, jsonData, tc)

RECURSIVE TableLoop(_, _, _, _)
TableLoop(run, jsonData, tableConfigs, i) ==
  IF run.failed \/ i > Len(tableConfigs) THEN run
  ELSE TableLoop(TableStep(run, jsonData, tableConfigs[i], i), jsonData, tableConfigs, i + 1)

\* autoFitColumns(worksheet), inside its two try blocks: a failure is logged
autoFitColumns(run, k, fault) ==
  IF fault = "autofit"
  THEN Swallow(run, <<"options", k>>, TRUE, "Auto-fit columns failed")
  ELSE [run EXCEPT !.wb.sheets[k].widths = [c \in 1..AutoFitColumns |-> AutoFitWidth]]

\* if (options.autoFitColumns !== false) autoFitColumns(worksheet)
AutoFit(run, options, k, fault) ==
  IF options.autoFitColumns # JBool(FALSE) THEN autoFitColumns(run, k, fault) ELSE run

\* if (options.freezeFirstRow) worksheet.views = [{state: 'frozen', ySplit: 1}]
Freeze(run, options, k) ==
  IF Truthy(options.freezeFirstRow) THEN [run EXCEPT !.wb.sheets[k].frozen = TRUE] ELSE run

\* if (options.protectSheet) worksheet.protect(options.password || '', ...)
Protect(run, options, k, fault) ==
  IF ~Truthy(options.protectSheet) THEN run
  ELSE IF fault = "protect" THEN Raise(run, <<"options", k>>, TRUE, "protect failed")
  ELSE [run EXCEPT !.wb.sheets[k].protected = TRUE,
                   !.wb.sheets[k].password =
                      IF Truthy(options.password) THEN options.password.s ELSE ""]

\* the callback of workbook.eachSheet, for sheet k
OptionsStep(run, options, k, fault) ==
  Protect(Freeze(AutoFit(Begin(run, <<"options", k>>), options, k, fault), options, k),
          options, k, fault)

\* the options applied to the first sheet of the workbook only
OptionsOfFirstSheet(run, options, k, fault) ==
  IF run.failed \/ k > Len(run.wb.sheets) THEN run
  ELSE OptionsStep(run, options, k, fault)

RECURSIVE OptionsLoop(_, _, _, _)
OptionsLoop(run, options, k, fault) ==
  IF run.failed \/ k > Len(run.wb.sheets) THEN run
  ELSE OptionsLoop(OptionsStep(run, options, k, fault), options, k + 1, fault)

\* const buffer = await workbook.xlsx.writeBuffer()
WriteStep(run, fault) ==
  IF run.failed THEN run
  ELSE IF fault = "write"
  THEN Raise(Begin(run, <<"write", 0>>), <<"write", 0>>, TRUE, "write failed")
  ELSE Begin(run, <<"write", 0>>)

GenerationPrefix == "Failed to generate Excel workbook: "

\* error instanceof Error ? error.message : 'Unknown error'
MessageOf(exception, fallback) == IF exception.isError THEN exception.message ELSE fallback

\* the exception that left the try block of a failed run
Escaped(run) == run.raised[Len(run.raised)]

\* generateWorkbook with a catch that logs the error and does not throw again:
\* the workbook is serialized as far as it was written
OutcomeWithoutRethrow(run) ==
  [outcome |-> "buffer", buffer |-> XlsxBuffer(run.wb), message |-> "",
   steps |-> run.steps, raised |-> run.raised, wb |-> run.wb]

\* what the call gives its caller: a buffer, or the one error of the catch
Outcome(run) ==
  IF run.failed
  THEN [outcome |-> "throw", buffer |-> NoBuffer,
        message |-> GenerationPrefix \o MessageOf(Escaped(run), "Unknown error"),
        steps |-> run.steps, raised |-> run.raised, wb |-> run.wb]
  ELSE [outcome |-> "buffer", buffer |-> XlsxBuffer(run.wb), message |-> "",
        steps |-> run.steps, raised |-> run.raised, wb |-> run.wb]

\* generateWorkbook with its two loops in the other order: the tables first
generateWorkbookTablesFirst(jsonData, mappingConfig, tableConfigs, templateBuffer, options, fault) ==
  Outcome(
    WriteStep(
      OptionsLoop(
        ProcessMappings(
          TableLoop(LoadStep(templateBuffer), jsonData, tableConfigs, 1),
          jsonData, mappingConfig, fault),
        options, 1, fault),
      fault))

generateWorkbook(jsonData, mappingConfig, tableConfigs, templateBuffer, options, fault) ==
  Outcome(
    WriteStep(
      OptionsLoop(
        TableLoop(
          ProcessMappings(LoadStep(templateBuffer), jsonData, mappingConfig, fault),
          jsonData, tableConfigs, 1),
        options, 1, fault),
      fault))

(***************************************************************************)
(* validateTemplate and getTemplateInfo (the template inspector).          *)
(***************************************************************************)
SheetNames(wb) == [i \in 1..Len(wb.sheets) |-> wb.sheets[i].name]

\* await workbook.xlsx.load(templateBuffer): the workbook, or what it throws
load(templateBuffer) ==
  CASE templateBuffer.kind = "xlsx" ->
         [thrown |-> FALSE, isError |-> FALSE, message |-> "", wb |-> templateBuffer.wb]
    [] templateBuffer.kind = "corrupt" ->
         [thrown |-> TRUE, isError |-> TRUE, message |-> LoadErrorMessage, wb |-> NewWorkbook]
    [] OTHER ->
         [thrown |-> TRUE, isError |-> FALSE, message |-> "", wb |-> NewWorkbook]

\* validateTemplate without its try block: a failed load leaves the function
\* as an exception
ValidationUncaught(loaded) ==
  IF loaded.thrown
  THEN [isValid |-> FALSE, sheets |-> <<>>, hasError |-> FALSE, error |-> "",
        raises |-> TRUE]
  ELSE [isValid |-> TRUE, sheets |-> SheetNames(loaded.wb), hasError |-> FALSE,
        error |-> "", raises |-> FALSE]

\* the try block and the catch: {isValid: true, sheets} or {isValid: false, sheets: [], error}
Validation(loaded) ==
  IF loaded.thrown
  THEN [isValid |-> FALSE, sheets |-> <<>>, hasError |-> TRUE,
        error |-> IF loaded.isError THEN loaded.message ELSE "Invalid template file",
        raises |-> FALSE]
  ELSE [isValid |-> TRUE, sheets |-> SheetNames(loaded.wb), hasError |-> FALSE,
        error |-> "", raises |-> FALSE]

validateTemplateUtil(templateBuffer) == Validation(load(templateBuffer))

\* cell.value !== null && cell.value !== undefined && cell.value !== ''
HoldsData(cell) == cell.isFormula \/ cell.value \notin {JNull, Undefined, JStr("")}

Largest(S) == IF S = {} THEN 0 ELSE CHOOSE m \in S : \A x \in S : x <= m

SheetInfo(sheet) ==
  [name |-> sheet.name,
   rowCount |-> Largest({k[1] : k \in DOMAIN sheet.cells}),
   columnCount |-> Largest({k[2] : k \in DOMAIN sheet.cells}),
   hasData |-> \E k \in DOMAIN sheet.cells : HoldsData(sheet.cells[k])]

\* the sheets of a loaded workbook, or the error of the load: no try block here
TemplateInfo(loaded) ==
  IF loaded.thrown
  THEN [thrown |-> TRUE,
        message |-> IF loaded.isError THEN loaded.message ELSE "Unknown error occurred",
        sheets |-> <<>>, totalSheets |-> 0]
  ELSE [thrown |-> FALSE, message |-> "",
        sheets |-> [i \in 1..Len(loaded.wb.sheets) |-> SheetInfo(loaded.wb.sheets[i])],
        totalSheets |-> Len(loaded.wb.sheets)]

getTemplateInfo(templateBuffer) == TemplateInfo(load(templateBuffer))

(***************************************************************************)
(* sendEmailWithAttachment.  mail is the state of the mail transport:      *)
(* "ok", "noCredentials" (createEmailTransporter throws), "sendFails"      *)
(* (sendMail rejects with an Error), "sendValue" (with another value).     *)
(***************************************************************************)
MailStates == {"ok", "noCredentials", "sendFails", "sendValue"}

sendEmailWithAttachment(recipient, attachmentBuffer, fileName, mail) ==
  CASE mail = "ok" -> [thrown |-> FALSE, message |-> ""]
    [] mail = "noCredentials" ->
         [thrown |-> TRUE,
          message |-> "Failed to send email: Email credentials not configured. "
                      \o "Please set EMAIL_USER and EMAIL_PASS in .env file"]
    [] mail = "sendFails" ->
         [thrown |-> TRUE, message |-> "Failed to send email: connect ECONNREFUSED"]
    [] OTHER -> [thrown |-> TRUE, message |-> "Failed to send email: Unknown error"]

(***************************************************************************)
(* Requests.  A field of the body that may arrive as JSON or, in form      *)
(* data, as text is {kind, val}: "absent", "json" (val as parsed by the    *)
(* body parser), "text" (a string JSON.parse turns into val) or "badtext"  *)
(* (a string JSON.parse rejects).                                          *)
(***************************************************************************)
Field(kind, val) == [kind |-> kind, val |-> val]

Body(jsonData, mappingConfig, tables, options, mode, emailAddress, fileName) ==
  [jsonData |-> jsonData, mappingConfig |-> mappingConfig, tables |-> tables,
   options |-> options, mode |-> mode, emailAddress |-> emailAddress,
   fileName |-> fileName]

NoFile ==
  [present |-> FALSE, mimetype |-> "", originalname |-> <<>>, size |-> 0,
   buffer |-> NoBuffer]

UploadedFile(mimetype, originalname, size, buffer) ==
  [present |-> TRUE, mimetype |-> mimetype, originalname |-> originalname, size |-> size,
   buffer |-> buffer]

\* one entry of the array of a bulk request: null, or an object
BulkItem(isNull, jsonData, mappingConfig, tables, options, fileName) ==
  [isNull |-> isNull, jsonData |-> jsonData, mappingConfig |-> mappingConfig,
   tables |-> tables, options |-> options, fileName |-> fileName]

\* the `requests` field of the body of /bulk
BulkBody(isArray, items) == [isArray |-> isArray, items |-> items]

EmptyBody ==
  Body(Field("absent", Undefined), Field("absent", <<>>), Field("absent", <<>>),
       Field("absent", NoOptions), Undefined, Undefined, Undefined)

Request(route, file, body, bulk) ==
  [route |-> route, file |-> file, body |-> body, bulk |-> bulk]

(***************************************************************************)
(* validateExcelRequest: JSON.parse of the text fields, then the schema.   *)
(***************************************************************************)
\* Joi.string().email(), on the addresses of the model
IsEmail(s) == s \in {"user@example.com", "ops@example.org"}

Detail(field, message) == [field |-> field, message |-> message]

\* the violations of the items of mappingConfig: cell must match the pattern
RECURSIVE MappingDetails(_, _)
MappingDetails(items, i) ==
  IF i > Len(items) THEN <<>>
  ELSE (IF MatchesCellPattern(items[i].cell) THEN <<>>
        ELSE <<Detail("mappingConfig." \o NumberText(i - 1) \o ".cell",
                      "fails to match the required pattern")>>)
       \o MappingDetails(items, i + 1)

\* the violations of the items of tables: startCell must match the pattern
RECURSIVE TableDetails(_, _)
TableDetails(items, i) ==
  IF i > Len(items) THEN <<>>
  ELSE (IF MatchesCellPattern(items[i].startCell) THEN <<>>
        ELSE <<Detail("tables." \o NumberText(i - 1) \o ".startCell",
                      "fails to match the required pattern")>>)
       \o TableDetails(items, i + 1)

\* mode: Joi.string().valid('download', 'email').default('download')
ModeValid(mode) == mode = Undefined \/ mode \in {JStr("download"), JStr("email")}

ValidatedMode(mode) == IF mode = Undefined THEN JStr("download") ELSE mode

\* emailAddress: required and an email when mode is 'email', else an optional email
EmailDetails(mode, emailAddress) ==
  IF emailAddress = Undefined
  THEN IF ValidatedMode(mode) = JStr("email")
       THEN <<Detail("emailAddress", "is required")>> ELSE <<>>
  ELSE IF emailAddress.t = "str" /\ IsEmail(emailAddress.s) THEN <<>>
  ELSE <<Detail("emailAddress", "must be a valid email")>>

\* the options after Joi's defaults
DefaultedOptions(o) ==
  ExcelOptions(IF o.autoFitColumns = Undefined THEN JBool(TRUE) ELSE o.autoFitColumns,
               IF o.freezeFirstRow = Undefined THEN JBool(FALSE) ELSE o.freezeFirstRow,
               IF o.protectSheet = Undefined THEN JBool(FALSE) ELSE o.protectSheet,
               o.password)

\* error.details of excelRequestSchema.validate(body, {abortEarly: false})
SchemaDetails(body) ==
  (CASE body.jsonData.kind = "absent" -> <<Detail("jsonData", "is required")>>
     [] body.jsonData.val.t # "obj" -> <<Detail("jsonData", "must be of type object")>>
     [] OTHER -> <<>>)
  \o (IF body.mappingConfig.kind = "absent"
      THEN <<Detail("mappingConfig", "is required")>>
      ELSE MappingDetails(body.mappingConfig.val, 1))
  \o (IF body.tables.kind = "absent" THEN <<>> ELSE TableDetails(body.tables.val, 1))
  \o (IF ModeValid(body.mode) THEN <<>>
      ELSE <<Detail("mode", "must be one of [download, email]")>>)
  \o EmailDetails(body.mode, body.emailAddress)

\* a JSON.parse of the try block throws
ParseThrows(body) ==
  \/ body.jsonData.kind = "badtext" \/ body.mappingConfig.kind = "badtext"
  \/ body.tables.kind = "badtext" \/ body.options.kind = "badtext"

\* the body with its text fields parsed
Parsed(f) == IF f.kind = "text" THEN Field("json", f.val) ELSE f

\* `value`: the validated body, defaults applied
Sanitized(body) ==
  Body(Parsed(body.jsonData), Parsed(body.mappingConfig), Parsed(body.tables),
       IF body.options.kind = "absent" THEN body.options
       ELSE Field("json", DefaultedOptions(body.options.val)),
       ValidatedMode(body.mode), body.emailAddress,
       IF body.fileName = Undefined THEN JStr("generated.xlsx") ELSE body.fileName)

\* the schema validated with abortEarly left at its default: the first
\* violation only
validateExcelRequestAbortEarly(body) ==
  IF ParseThrows(body)
  THEN [next |-> FALSE, error |-> "Invalid JSON format", details |-> <<>>, value |-> body]
  ELSE IF SchemaDetails(body) # <<>>
  THEN [next |-> FALSE, error |-> "Validation Error",
        details |-> <<SchemaDetails(body)[1]>>, value |-> body]
  ELSE [next |-> TRUE, error |-> "", details |-> <<>>, value |-> Sanitized(body)]

\* the outcome of the middleware: next() with the sanitized body, or a 400
validateExcelRequest(body) ==
  IF ParseThrows(body)
  THEN [next |-> FALSE, error |-> "Invalid JSON format", details |-> <<>>, value |-> body]
  ELSE IF SchemaDetails(body) # <<>>
  THEN [next |-> FALSE, error |-> "Validation Error", details |-> SchemaDetails(body),
        value |-> body]
  ELSE [next |-> TRUE, error |-> "", details |-> <<>>, value |-> Sanitized(body)]

(***************************************************************************)
(* The upload middleware (multer): fileFilter and the size limit.          *)
(***************************************************************************)
\* parseInt(process.env.MAX_FILE_SIZE || '10485760'), the variable unset
MaxFileSize == 10485760

AllowedMimes ==
  {"application/vnd.openxmlformats-officedocument.spreadsheetml.sheet",
   "application/vnd.ms-excel", "application/octet-stream"}

AllowedExtensions == {".xlsx", ".xls"}

\* toLowerCase, on the symbols of the file names of the model
LowerSymbol(c) ==
  CASE c = "XLSX" -> "xlsx"
    [] c = "XLS" -> "xls"
    [] c = "Report" -> "report"
    [] OTHER -> c

\* originalname.lastIndexOf('.'), as a position from 1; 0 when there is no '.'
LastDot(name) == Largest({i \in 1..Len(name) : name[i] = "."})

\* originalname.toLowerCase().substring(originalname.lastIndexOf('.'))
FileExtension(name) ==
  LET from == IF LastDot(name) = 0 THEN 1 ELSE LastDot(name)
  IN  Text([i \in 1..(Len(name) - from + 1) |-> LowerSymbol(name[from + i - 1])])

\* cb(null, true), or cb(new Error(...))
fileFilter(file) ==
  file.mimetype \in AllowedMimes \/ FileExtension(file.originalname) \in AllowedExtensions

NoError == [name |-> "", code |-> "", message |-> ""]

\* what upload.single('template') hands on: the file as req.file, or an error
upload(file) ==
  IF ~file.present THEN [err |-> NoError, file |-> NoFile]
  ELSE IF ~fileFilter(file)
  THEN [err |-> [name |-> "Error", code |-> "",
                 message |-> "Only Excel files (.xlsx, .xls) are allowed"],
        file |-> NoFile]
  ELSE IF file.size > MaxFileSize
  THEN [err |-> [name |-> "MulterError", code |-> "LIMIT_FILE_SIZE",
                 message |-> "File too large"],
        file |-> NoFile]
  ELSE [err |-> NoError, file |-> file]

(***************************************************************************)
(* Responses.                                                              *)
(***************************************************************************)
Response(status, kind, error, message) ==
  [status |-> status, kind |-> kind, error |-> error, message |-> message,
   details |-> <<>>, buffer |-> NoBuffer, fileName |-> "", recipient |-> "",
   results |-> <<>>, errors |-> <<>>, sheets |-> <<>>, info |-> <<>>]

\* the global error handling middleware of the server
errorHandler(err) ==
  IF err.name = "ValidationError"
  THEN Response(400, "error", "Validation Error", "")
  ELSE IF err.code = "LIMIT_FILE_SIZE"
  THEN Response(413, "error", "File too large", "")
  ELSE Response(500, "error", "Internal Server Error", "Something went wrong")

(***************************************************************************)
(* generateExcel: the responses it sends and the calls it makes.           *)
(***************************************************************************)
GwCall(caller, index, jsonData, mappingConfig, tableConfigs, templateBuffer, options, fault) ==
  [caller |-> caller, index |-> index, jsonData |-> jsonData,
   mappingConfig |-> mappingConfig, tableConfigs |-> tableConfigs,
   templateBuffer |-> templateBuffer, options |-> options,
   result |-> generateWorkbook(jsonData, mappingConfig, tableConfigs, templateBuffer,
                               options, fault)]

MailCall(recipient, attachmentBuffer, fileName, mail) ==
  [recipient |-> recipient, attachment |-> attachmentBuffer, fileName |-> fileName,
   result |-> sendEmailWithAttachment(recipient, attachmentBuffer, fileName, mail)]

Effect(responses, gwCalls, mailCalls) ==
  [responses |-> responses, gwCalls |-> gwCalls, mailCalls |-> mailCalls]

\* sendEmailWithAttachment called without await: its rejection is not caught
\* and the envelope is sent whatever becomes of the mail
MailedUnawaited(call, sent, recipient, fileName) ==
  Effect(<<[Response(200, "email", "", "Excel file generated and sent successfully")
            EXCEPT !.recipient = recipient, !.fileName = fileName]>>,
         <<call>>, <<sent>>)

\* the email branch once sendEmailWithAttachment has settled: the catch, or the envelope
Mailed(call, sent, recipient, fileName) ==
  IF sent.result.thrown
  THEN Effect(<<Response(500, "error", "Failed to generate Excel file",
                         sent.result.message)>>, <<call>>, <<sent>>)
  ELSE Effect(<<[Response(200, "email", "", "Excel file generated and sent successfully")
                 EXCEPT !.recipient = recipient, !.fileName = fileName]>>,
              <<call>>, <<sent>>)

\* file names with a character a header value cannot hold: res.setHeader
\* throws for them
HeaderUnsafeNames == {"line\nbreak.xlsx"}

\* the download branch without its return: the handler goes on to the
\* envelope at its end
DeliverFallingThrough(call, mode, emailAddress, fileName, mail) ==
  IF mode = JStr("download")
  THEN Effect(<<[Response(200, "file", "", "") EXCEPT
                   !.buffer = call.result.buffer, !.fileName = fileName],
                [Response(200, "base64", "", "Excel file generated successfully")
                   EXCEPT !.buffer = call.result.buffer, !.fileName = fileName]>>,
              <<call>>, <<>>)
  ELSE IF mode = JStr("email") /\ Truthy(emailAddress)
  THEN Mailed(call, MailCall(emailAddress.s, call.result.buffer, fileName, mail),
              emailAddress.s, fileName)
  ELSE IF mode = JStr("email")
  THEN Effect(<<Response(400, "error", "Email address required for email mode",
                         "Please provide a valid email address in the emailAddress field")>>,
              <<call>>, <<>>)
  ELSE Effect(<<[Response(200, "base64", "", "Excel file generated successfully")
                 EXCEPT !.buffer = call.result.buffer, !.fileName = fileName]>>,
              <<call>>, <<>>)

\* what follows a generateWorkbook that returned: the branch of the mode
Deliver(call, mode, emailAddress, fileName, mail) ==
  IF mode = JStr("download")
  THEN IF fileName \in HeaderUnsafeNames
       THEN Effect(<<Response(500, "error", "Failed to generate Excel file",
                              "Invalid character in header content [\"Content-Disposition\"]")>>,
                   <<call>>, <<>>)
       ELSE Effect(<<[Response(200, "file", "", "") EXCEPT
                        !.buffer = call.result.buffer, !.fileName = fileName]>>,
                   <<call>>, <<>>)
  ELSE IF mode = JStr("email")
  THEN IF ~Truthy(emailAddress)
       THEN Effect(<<Response(400, "error", "Email address required for email mode",
                              "Please provide a valid email address in the emailAddress field")>>,
                   <<call>>, <<>>)
       ELSE Mailed(call, MailCall(emailAddress.s, call.result.buffer, fileName, mail),
                   emailAddress.s, fileName)
  ELSE Effect(<<[Response(200, "base64", "", "Excel file generated successfully")
                 EXCEPT !.buffer = call.result.buffer, !.fileName = fileName]>>,
              <<call>>, <<>>)

\* the try block from the call of generateWorkbook on, and the catch
Generated(call, mode, emailAddress, fileName, mail) ==
  IF call.result.outcome = "throw"
  THEN Effect(<<Response(500, "error", "Failed to generate Excel file",
                         call.result.message)>>, <<call>>, <<>>)
  ELSE Deliver(call, mode, emailAddress, fileName, mail)

\* the destructuring of req.body with its defaults, then the call
generateExcel(body, file, fault, mail) ==
  Generated(GwCall("generateExcel", 0,
                   IF body.jsonData.kind = "absent" THEN Undefined ELSE body.jsonData.val,
                   IF body.mappingConfig.kind = "absent" THEN Missing
                   ELSE Given(body.mappingConfig.val),
                   IF body.tables.kind = "absent" THEN <<>> ELSE body.tables.val,
                   IF file.present THEN file.buffer ELSE NoBuffer,
                   IF body.options.kind = "absent" THEN NoOptions ELSE body.options.val,
                   fault),
            IF body.mode = Undefined THEN JStr("download") ELSE body.mode,
            body.emailAddress,
            IF body.fileName = Undefined THEN "generated.xlsx" ELSE body.fileName.s,
            mail)

\* req.body.mode = 'download'; return generateExcel(req, res)
downloadExcel(body, file, fault, mail) ==
  generateExcel([body EXCEPT !.mode = JStr("download")], file, fault, mail)

\* req.body.mode = 'email'; 400 without emailAddress, else generateExcel(req, res)
emailExcel(body, file, fault, mail) ==
  IF ~Truthy(body.emailAddress)
  THEN Effect(<<Response(400, "error", "Email address required",
                         "Please provide a valid email address")>>, <<>>, <<>>)
  ELSE generateExcel([body EXCEPT !.mode = JStr("email")], file, fault, mail)

(***************************************************************************)
(* uploadTemplate and validateTemplate (the controllers).                  *)
(***************************************************************************)
Inspection(responses, validated, informed) ==
  [responses |-> responses, validated |-> validated, informed |-> informed]

\* the answer once the template is known to be valid: getTemplateInfo, then the 200
Informed(validation, templateInfo, failure, success) ==
  IF templateInfo.thrown
  THEN Inspection(<<Response(500, "error", failure, templateInfo.message)>>,
                  <<validation>>, <<templateInfo>>)
  ELSE Inspection(<<[Response(200, "template", "", success) EXCEPT
                       !.sheets = validation.sheets, !.info = templateInfo.sheets]>>,
                  <<validation>>, <<templateInfo>>)

\* the handler without its test of validation.isValid: getTemplateInfo is
\* called for every uploaded file
ValidatedUnchecked(templateBuffer, validation, failure, invalid, success) ==
  Informed(validation, getTemplateInfo(templateBuffer), failure, success)

\* the handler from the call of validateTemplate on
Validated(templateBuffer, validation, failure, invalid, success) ==
  IF validation.raises
  THEN Inspection(<<Response(500, "error", failure, "Unknown error occurred")>>,
                  <<validation>>, <<>>)
  ELSE IF ~validation.isValid
  THEN Inspection(<<Response(400, "error", invalid, validation.error)>>,
                  <<validation>>, <<>>)
  ELSE Informed(validation, getTemplateInfo(templateBuffer), failure, success)

\* the two controllers differ in the wording of their answers only
InspectTemplate(file, failure, invalid, success) ==
  IF ~file.present
  THEN Inspection(<<Response(400, "error", "No template file provided", "")>>, <<>>, <<>>)
  ELSE Validated(file.buffer, validateTemplateUtil(file.buffer), failure, invalid, success)

uploadTemplate(file) ==
  InspectTemplate(file, "Failed to process template", "Invalid template file",
                  "Template uploaded and validated successfully")

validateTemplate(file) ==
  InspectTemplate(file, "Validation failed", "Template validation failed",
                  "Template is valid and ready to use")

(***************************************************************************)
(* bulkGenerate: one turn of its loop, and its answer.                     *)
(***************************************************************************)
\* the catch of the loop recording the failure under the number of the file
\* (i + 1) in the place of the index
BulkOutcomeOneBased(item, i, call) ==
  IF call.result.outcome = "throw"
  THEN [gwCalls |-> <<call>>, results |-> <<>>,
        errors |-> <<[index |-> i + 1, error |-> call.result.message]>>]
  ELSE [gwCalls |-> <<call>>,
        results |-> <<[index |-> i, success |-> TRUE,
                       fileName |-> IF Truthy(item.fileName) THEN item.fileName.s
                                    ELSE "generated_" \o NumberText(i + 1) \o ".xlsx",
                       data |-> call.result.buffer]>>,
        errors |-> <<>>]

\* results.push({...}) after the call, or errors.push({...}) in the catch
BulkOutcome(item, i, call) ==
  IF call.result.outcome = "throw"
  THEN [gwCalls |-> <<call>>, results |-> <<>>,
        errors |-> <<[index |-> i, error |-> call.result.message]>>]
  ELSE [gwCalls |-> <<call>>,
        results |-> <<[index |-> i, success |-> TRUE,
                       fileName |-> IF Truthy(item.fileName) THEN item.fileName.s
                                    ELSE "generated_" \o NumberText(i + 1) \o ".xlsx",
                       data |-> call.result.buffer]>>,
        errors |-> <<>>]

\* the body of the inner try for requests[i] (i from 0), and its catch: a
\* null entry throws at request.jsonData, before any call
BulkTurn(item, i, fault) ==
  IF item.isNull
  THEN [gwCalls |-> <<>>, results |-> <<>>,
        errors |-> <<[index |-> i,
                      error |-> "Cannot read properties of null (reading 'jsonData')"]>>]
  ELSE BulkOutcome(item, i,
         GwCall("bulkGenerate", i, item.jsonData, item.mappingConfig,
                IF item.tables.defined THEN item.tables.items ELSE <<>>,
                NoBuffer,
                IF item.options.kind = "absent" THEN NoOptions ELSE item.options.val,
                fault))

\* !Array.isArray(requests) || requests.length === 0
BulkRejected(bulk) == ~bulk.isArray \/ Len(bulk.items) = 0

(***************************************************************************)
(* The requests of the model.                                              *)
(***************************************************************************)
A1 == <<"A", "1">>

B2 == <<"B", "2">>

A3 == <<"A", "3">>

\* a reference outside the pattern
LowerA1 == <<"a", "1">>

DocPlain == JObj([name |-> JStr("John")])

DocTable ==
  JObj([name |-> JStr("John"), a |-> JObj([b |-> JNum(5)]),
        tableData |-> JArr(<<JArr(<<JNum(1), JNum(2)>>), JArr(<<JNum(3), JNum(4)>>)>>)])

DocEmptyTable == JObj([name |-> JStr("Jane"), tableData |-> JArr(<<>>)])

MapName == MappingConfig("Sheet1", A1, <<"name">>, "", NoStyle, "")

MapTotal ==
  MappingConfig("Report", B2, <<"a", ".", "b">>, "SUM(B3:B9)",
                [NoStyle EXCEPT !.defined = TRUE, !.bgColor = "FFFF00", !.bold = TRUE],
                "Currency")

\* a field the documents of the model do not hold
MapUnresolved == MappingConfig("Sheet1", B2, <<"a", ".", "zip">>, "", NoStyle, "")

MapBadCell == MappingConfig("Sheet1", LowerA1, <<"name">>, "", NoStyle, "")

TabSales == TableConfig("Sheet1", "Sales", A3, <<"P", "Q">>, NoTableStyle)

TabBadStart == TableConfig("Data", "Stock", LowerA1, <<"P", "Q">>, NoTableStyle)

\* a template with a sheet that holds a title, a sheet without cells, a
\* sheet whose cells hold the empty string and null, and a sheet that holds false
TemplateWorkbook ==
  [sheets |-> <<PutCell(NewSheet("Cover"), <<1, 1>>, [BlankCell EXCEPT !.value = JStr("Title")]),
                NewSheet("Sheet1"),
                PutCell(PutCell(NewSheet("Notes"), <<1, 1>>,
                                [BlankCell EXCEPT !.value = JStr("")]),
                        <<2, 3>>, BlankCell),
                PutCell(NewSheet("Flags"), <<4, 2>>, [BlankCell EXCEPT !.value = JBool(FALSE)])>>]

XlsxMime == "application/vnd.openxmlformats-officedocument.spreadsheetml.sheet"

FileTemplate == UploadedFile(XlsxMime, <<"Report", ".", "XLSX">>, 2048, XlsxBuffer(TemplateWorkbook))

\* accepted for its extension alone
FileByExtension == UploadedFile("text/plain", <<"old", ".", "xls">>, 512, XlsxBuffer(NewWorkbook))

FileWrongType == UploadedFile("text/plain", <<"notes", ".", "txt">>, 64, CorruptBuffer)

FileTooLarge == UploadedFile(XlsxMime, <<"big", ".", "xlsx">>, MaxFileSize + 1, XlsxBuffer(TemplateWorkbook))

FileCorrupt == UploadedFile("application/octet-stream", <<"blob">>, 100, CorruptBuffer)

FileUnreadable == UploadedFile("application/vnd.ms-excel", <<"odd", ".", "xls">>, 100, UnreadableBuffer)

Files ==
  {NoFile, FileTemplate, FileByExtension, FileWrongType, FileTooLarge, FileCorrupt,
   FileUnreadable}

JsonDataFields ==
  {Field("absent", Undefined), Field("json", DocPlain), Field("json", DocTable),
   Field("json", DocEmptyTable), Field("text", DocTable), Field("badtext", Undefined),
   Field("json", JNum(5))}

MappingFields ==
  {Field("absent", <<>>), Field("badtext", <<>>), Field("text", <<MapName>>)}
  \cup {Field("json", m) : m \in {<<>>, <<MapName>>, <<MapName, MapTotal>>, <<MapUnresolved>>,
                                  <<MapBadCell>>, <<MapBadCell, MapName>>}}

TableFields ==
  {Field("absent", <<>>), Field("json", <<TabSales>>), Field("json", <<TabBadStart>>),
   Field("json", <<TabBadStart, TabSales>>)}

OptionFields ==
  {Field("absent", NoOptions),
   Field("json", ExcelOptions(Undefined, JBool(TRUE), JBool(TRUE), JStr("secret"))),
   Field("json", ExcelOptions(JBool(FALSE), Undefined, JBool(TRUE), Undefined))}

Modes == {Undefined, JStr("download"), JStr("email"), JStr("base64")}

EmailAddresses == {Undefined, JStr(""), JStr("user@example.com"), JStr("not-an-email")}

GenerateRoutes == {"generate", "download", "email"}

TemplateRoutes == {"upload-template", "validate-template"}

NoBulk == BulkBody(FALSE, <<>>)

\* the bodies of the generation routes: every combination of the fields the
\* validation reads, and the files and options with a valid document
GenerateRequests ==
  {Request(route, NoFile, Body(j, m, t, Field("absent", NoOptions), mode, e, Undefined), NoBulk) :
     route \in GenerateRoutes, j \in JsonDataFields, m \in MappingFields,
     t \in TableFields, mode \in Modes, e \in EmailAddresses}
  \cup
  {Request(route, f, Body(Field("json", DocTable), Field("json", <<MapName, MapTotal>>), t, o,
                          mode, e, JStr("report.xlsx")), NoBulk) :
     route \in GenerateRoutes, f \in Files, t \in TableFields, o \in OptionFields,
     mode \in Modes, e \in EmailAddresses}

TemplateRequests ==
  {Request(route, f, EmptyBody, NoBulk) : route \in TemplateRoutes, f \in Files}

ItemGood ==
  BulkItem(FALSE, DocPlain, Given(<<MapName>>), Missing, Field("absent", NoOptions),
           JStr("first.xlsx"))

\* malformed: no mappingConfig
ItemMalformed ==
  BulkItem(FALSE, DocPlain, Missing, Missing, Field("absent", NoOptions), Undefined)

\* a mapping cell outside the pattern
ItemBadCell ==
  BulkItem(FALSE, DocPlain, Given(<<MapBadCell>>), Missing, Field("absent", NoOptions),
           Undefined)

\* a start cell outside the pattern, and rows for the table
ItemBadStart ==
  BulkItem(FALSE, DocTable, Given(<<MapName>>), Given(<<TabBadStart>>),
           Field("absent", NoOptions), Undefined)

\* a start cell outside the pattern, and no row for the table
ItemBadStartNoRows ==
  BulkItem(FALSE, DocEmptyTable, Given(<<MapUnresolved>>), Given(<<TabBadStart>>),
           Field("absent", NoOptions), Undefined)

ItemNull == BulkItem(TRUE, Undefined, Missing, Missing, Field("absent", NoOptions), Undefined)

BulkItems == {ItemGood, ItemMalformed, ItemBadCell, ItemBadStart, ItemBadStartNoRows, ItemNull}

BulkRequests ==
  {Request("bulk", NoFile, EmptyBody, NoBulk)}
  \cup {Request("bulk", NoFile, EmptyBody, BulkBody(TRUE, items)) :
          items \in UNION {[1..n -> BulkItems] : n \in 0..MaxBulk}}

Requests == GenerateRequests \cup TemplateRequests \cup BulkRequests

(***************************************************************************)
(* The server: one request at a time goes through the middlewares of its   *)
(* route, then its controller, or to the global error handler.             *)
(***************************************************************************)
VARIABLES
  pc,          \* where the request is: idle, upload, validate, controller, bulk, error, done
  req,         \* the request as received
  file,        \* req.file, set by the upload middleware
  body,        \* req.body, replaced by the validation middleware
  err,         \* the error handed to next(err)
  responses,   \* the responses sent for the request, in order
  invoked,     \* the middlewares and controllers run for the request, in order
  gwLog,       \* the calls of generateWorkbook made for the request
  mailLog,     \* the calls of sendEmailWithAttachment made for the request
  inspectLog,  \* the results of validateTemplate and getTemplateInfo
  cursor,      \* bulkGenerate: the loop variable i
  results,     \* bulkGenerate: results
  errors,      \* bulkGenerate: errors
  fn,          \* the utility function applied on its own, "" when none is
  arg,         \* its arguments
  out,         \* its result
  heap,        \* the workbooks created by the calls of generateWorkbook in flight
  calls        \* those calls: where each one is, its arguments, its workbook, its result

\* the state of the server
serverVars ==
  <<pc, req, file, body, err, responses, invoked, gwLog, mailLog, inspectLog, cursor,
    results, errors>>

\* the state the server does not touch
benchVars == <<fn, arg, out, heap, calls>>

vars == <<serverVars, benchVars>>

NoRequest == Request("", NoFile, EmptyBody, NoBulk)

NoInspection == Inspection(<<>>, <<>>, <<>>)

\* no request in the server
ServerIdle ==
  /\ pc = "idle"
  /\ req = NoRequest
  /\ file = NoFile
  /\ body = EmptyBody
  /\ err = NoError
  /\ responses = <<>>
  /\ invoked = <<>>
  /\ gwLog = <<>>
  /\ mailLog = <<>>
  /\ inspectLog = NoInspection
  /\ cursor = 0
  /\ results = <<>>
  /\ errors = <<>>

\* no utility function applied on its own
BenchIdle ==
  /\ fn = ""
  /\ arg = <<>>
  /\ out = <<>>

\* no call of generateWorkbook in flight
NoCalls ==
  /\ heap = <<>>
  /\ calls = <<>>

Init == ServerIdle /\ BenchIdle /\ NoCalls

\* a request arrives; /bulk has no middleware, the other routes start with the upload
Receive ==
  /\ pc = "idle"
  /\ \E r \in Requests :
       /\ req' = r
       /\ body' = r.body
       /\ pc' = IF r.route = "bulk" THEN "controller" ELSE "upload"
  /\ file' = NoFile
  /\ err' = NoError
  /\ responses' = <<>>
  /\ invoked' = <<>>
  /\ gwLog' = <<>>
  /\ mailLog' = <<>>
  /\ inspectLog' = NoInspection
  /\ cursor' = 0
  /\ results' = <<>>
  /\ errors' = <<>>
  /\ UNCHANGED benchVars

\* upload.single('template')
Upload ==
  /\ pc = "upload"
  /\ LET u == upload(req.file)
     IN  /\ file' = u.file
         /\ err' = u.err
         /\ pc' = IF u.err # NoError THEN "error"
                  ELSE IF req.route \in GenerateRoutes THEN "validate"
                  ELSE "controller"
  /\ invoked' = Append(invoked, "upload")
  /\ UNCHANGED <<req, body, responses, gwLog, mailLog, inspectLog, cursor, results, errors>>
  /\ UNCHANGED benchVars

\* the validation middleware of /generate, /download and /email
ValidateExcelRequest ==
  /\ pc = "validate"
  /\ LET v == validateExcelRequest(body)
     IN  IF v.next
         THEN /\ body' = v.value
              /\ pc' = "controller"
              /\ responses' = responses
         ELSE /\ body' = body
              /\ pc' = "done"
              /\ responses' = Append(responses,
                   [Response(400, "error", v.error, "") EXCEPT !.details = v.details])
  /\ invoked' = Append(invoked, "validateExcelRequest")
  /\ UNCHANGED <<req, file, err, gwLog, mailLog, inspectLog, cursor, results, errors>>
  /\ UNCHANGED benchVars

\* a controller of the generation routes runs to its end
Generate(route, name, effect) ==
  /\ pc = "controller"
  /\ req.route = route
  /\ responses' = responses \o effect.responses
  /\ gwLog' = gwLog \o effect.gwCalls
  /\ mailLog' = mailLog \o effect.mailCalls
  /\ invoked' = Append(invoked, name)
  /\ pc' = "done"
  /\ UNCHANGED <<req, file, body, err, inspectLog, cursor, results, errors>>
  /\ UNCHANGED benchVars

GenerateExcel ==
  \E fault \in Faults, mail \in MailStates :
    Generate("generate", "generateExcel", generateExcel(body, file, fault, mail))

DownloadExcel ==
  \E fault \in Faults, mail \in MailStates :
    Generate("download", "downloadExcel", downloadExcel(body, file, fault, mail))

EmailExcel ==
  \E fault \in Faults, mail \in MailStates :
    Generate("email", "emailExcel", emailExcel(body, file, fault, mail))

Inspect(route, name, inspection) ==
  /\ pc = "controller"
  /\ req.route = route
  /\ responses' = responses \o inspection.responses
  /\ inspectLog' = inspection
  /\ invoked' = Append(invoked, name)
  /\ pc' = "done"
  /\ UNCHANGED <<req, file, body, err, gwLog, mailLog, cursor, results, errors>>
  /\ UNCHANGED benchVars

UploadTemplate == Inspect("upload-template", "uploadTemplate", uploadTemplate(file))

ValidateTemplate == Inspect("validate-template", "validateTemplate", validateTemplate(file))

\* bulkGenerate up to its loop: the 400 of a missing or empty array
BulkGenerate ==
  /\ pc = "controller"
  /\ req.route = "bulk"
  /\ IF BulkRejected(req.bulk)
     THEN /\ responses' = Append(responses,
                 Response(400, "error", "Invalid bulk request",
                          "Please provide an array of generation requests"))
          /\ pc' = "done"
     ELSE /\ responses' = responses
          /\ pc' = "bulk"
  /\ invoked' = Append(invoked, "bulkGenerate")
  /\ UNCHANGED <<req, file, body, err, gwLog, mailLog, inspectLog, cursor, results, errors>>
  /\ UNCHANGED benchVars

\* one turn of `for (let i = 0; i < requests.length; i++)`
BulkIteration ==
  /\ pc = "bulk"
  /\ cursor < Len(req.bulk.items)
  /\ \E fault \in Faults :
       LET turn == BulkTurn(req.bulk.items[cursor + 1], cursor, fault)
       IN  /\ gwLog' = gwLog \o turn.gwCalls
           /\ results' = results \o turn.results
           /\ errors' = errors \o turn.errors
  /\ cursor' = cursor + 1
  /\ UNCHANGED <<pc, req, file, body, err, responses, invoked, mailLog, inspectLog>>
  /\ UNCHANGED benchVars

\* the answer after the loop
BulkRespond ==
  /\ pc = "bulk"
  /\ cursor >= Len(req.bulk.items)
  /\ responses' = Append(responses,
       [Response(200, "bulk", "", "Bulk generation completed") EXCEPT
          !.results = results, !.errors = errors])
  /\ pc' = "done"
  /\ UNCHANGED <<req, file, body, err, invoked, gwLog, mailLog, inspectLog, cursor,
                 results, errors>>
  /\ UNCHANGED benchVars

\* the global error handling middleware answers an error of a middleware
ErrorHandler ==
  /\ pc = "error"
  /\ responses' = Append(responses, errorHandler(err))
  /\ invoked' = Append(invoked, "errorHandler")
  /\ pc' = "done"
  /\ UNCHANGED <<req, file, body, err, gwLog, mailLog, inspectLog, cursor, results, errors>>
  /\ UNCHANGED benchVars

\* the request is over: nothing of it is kept, the server waits for the next one
Finish ==
  /\ pc = "done"
  /\ pc' = "idle"
  /\ req' = NoRequest
  /\ file' = NoFile
  /\ body' = EmptyBody
  /\ err' = NoError
  /\ responses' = <<>>
  /\ invoked' = <<>>
  /\ gwLog' = <<>>
  /\ mailLog' = <<>>
  /\ inspectLog' = NoInspection
  /\ cursor' = 0
  /\ results' = <<>>
  /\ errors' = <<>>
  /\ UNCHANGED benchVars

Next ==
  \/ Receive
  \/ Finish
  \/ Upload
  \/ ValidateExcelRequest
  \/ GenerateExcel
  \/ DownloadExcel
  \/ EmailExcel
  \/ UploadTemplate
  \/ ValidateTemplate
  \/ BulkGenerate
  \/ BulkIteration
  \/ BulkRespond
  \/ ErrorHandler

Spec == Init /\ [][Next]_vars

(***************************************************************************)
(* The utility functions on their own: one of them is applied to arguments *)
(* drawn from the sets below, and its result is kept beside them until the *)
(* next application.                                                       *)
(***************************************************************************)
\* the non-empty strings over A..Z of at most MaxLetters letters
ColumnLetters ==
  UNION {[1..n -> {UpperLetters[i] : i \in 1..Len(UpperLetters)}] : n \in 1..MaxLetters}

ColumnNumbers == 1..MaxColumn

\* the documents a path is resolved against
DocAB == JObj([a |-> JObj([b |-> JNum(5)])])

DocFalsy ==
  JObj([a |-> JNum(0), b |-> JBool(FALSE), c |-> JStr(""), name |-> JNull,
        length |-> JObj([a |-> JBool(TRUE)])])

DocList == JObj([a |-> JArr(<<JNum(7), JObj([b |-> JStr("x")])>>), name |-> JStr("John")])

NestedDocs == {DocAB, DocFalsy, DocList, JNull, JStr("abc")}

PathKeys == {"a", "b", "c", "name", "length", "0", "constructor"}

\* keys.join('.')
RECURSIVE Dotted(_)
Dotted(keys) ==
  IF Len(keys) = 1 THEN <<keys[1]>> ELSE <<keys[1], ".">> \o Dotted(Tail(keys))

\* the paths of at most MaxPath keys, the empty path, and paths that begin
\* or end with the separator
Paths ==
  {Dotted(keys) : keys \in UNION {[1..n -> PathKeys] : n \in 1..MaxPath}}
  \cup {<<>>, <<"a", ".">>, <<".", "a">>}

\* the document whose fields the mappings of the bench read
DocFields ==
  JObj([name |-> JStr("John"), zero |-> JNum(0), flag |-> JBool(FALSE),
        blank |-> JStr(""), none |-> JNull, a |-> JObj([b |-> JNum(5)])])

FieldPaths ==
  {<<"name">>, <<"zero">>, <<"flag">>, <<"blank">>, <<"none">>, <<"missing">>,
   <<"a", ".", "b">>, <<"a", ".", "c">>}

Formulas == {"", "SUM(B1:B9)"}

\* the arguments of one call of generateWorkbook, and what the library does
GwArgs(jsonData, mappingConfig, tableConfigs, templateBuffer, options, fault) ==
  [jsonData |-> jsonData, mappingConfig |-> mappingConfig, tableConfigs |-> tableConfigs,
   templateBuffer |-> templateBuffer, options |-> options, fault |-> fault]

\* one mapping of every field, with and without a formula
FieldCalls ==
  {GwArgs(DocFields, Given(<<MappingConfig(sheet, A1, fieldName, formula, NoStyle, "")>>),
          <<>>, NoBuffer, NoOptions, "none") :
     sheet \in {"Sheet1", "Report"}, fieldName \in FieldPaths, formula \in Formulas}

\* a template whose first sheet has a frozen top row and is protected
TemplateFrozen ==
  [sheets |-> <<[PutCell(NewSheet("Cover"), <<1, 1>>, [BlankCell EXCEPT !.value = JStr("Title")])
                   EXCEPT !.frozen = TRUE, !.protected = TRUE, !.password = "cover"],
                NewSheet("Sheet1")>>]

TabStock == TableConfig("Data", "Stock", A1, <<"P", "Q">>, NoTableStyle)

OptionValues == {Undefined, JBool(TRUE), JBool(FALSE)}

\* every combination of the options, with and without a template, with and
\* without sheets created by a mapping and by a table, under every fault
OptionCalls ==
  {GwArgs(DocTable, Given(mappings), tables, template,
          ExcelOptions(autoFit, freeze, protect, password), fault) :
     mappings \in {<<>>, <<MapTotal>>}, tables \in {<<>>, <<TabStock>>},
     template \in {NoBuffer, XlsxBuffer(TemplateFrozen)},
     autoFit \in OptionValues, freeze \in OptionValues, protect \in OptionValues,
     password \in {Undefined, JStr("secret")}, fault \in Faults}

A4 == <<"A", "4">>

\* mappings and tables of one sheet that write to the same cells
MapFive == MappingConfig("Sheet1", A1, <<"a", ".", "b">>, "", NoStyle, "")

MapData == MappingConfig("Sheet1", A4, <<"name">>, "SUM(B1:B9)", NoStyle, "")

TabOver == TableConfig("Sheet1", "Over", A4, <<"X">>, NoTableStyle)

OrderCalls ==
  {GwArgs(jsonData, Given(mappings), tables, NoBuffer, NoOptions, "none") :
     jsonData \in {DocTable, DocPlain},
     mappings \in UNION {[1..n -> {MapName, MapFive, MapData}] : n \in 0..MaxWrites},
     tables \in UNION {[1..n -> {TabSales, TabOver}] : n \in 0..MaxWrites}}

\* a document whose rows are an object and a value list, with other fields
\* named after the sheets and the tables of the entries
DocRows ==
  JObj([tableData |-> JArr(<<JObj([P |-> JNum(1), Q |-> JStr("x")]),
                             JArr(<<JNum(3), JNum(4)>>)>>),
        Sales |-> JArr(<<JArr(<<JNum(8), JNum(8)>>)>>),
        Stock |-> JArr(<<JArr(<<JNum(9), JNum(9)>>)>>),
        Data |-> JObj([tableData |-> JArr(<<JArr(<<JNum(6), JNum(6)>>)>>)]),
        name |-> JStr("John")])

\* the same other fields and no tableData
DocOwnData ==
  JObj([Sales |-> JArr(<<JArr(<<JNum(8), JNum(8)>>)>>),
        Stock |-> JArr(<<JArr(<<JNum(9), JNum(9)>>)>>),
        Data |-> JObj([tableData |-> JArr(<<JArr(<<JNum(6), JNum(6)>>)>>)]),
        name |-> JStr("John")])

DocNullTable == JObj([name |-> JStr("Jane"), tableData |-> JNull, Sales |-> JArr(<<JArr(<<JNum(8)>>)>>)])

\* the columns of TabSales on the same sheet, one row lower
TabCopy == TableConfig("Sheet1", "Copy", A4, <<"P", "Q">>, NoTableStyle)

\* a template whose sheet holds a table and its cells
TemplateTabled ==
  [sheets |-> <<createTable(NewSheet("Sheet1"),
                            TableConfig("Sheet1", "Held", A1, <<"H">>,
                                        [NoTableStyle EXCEPT !.rowBgColor = "EEEEEE"]),
                            JArr(<<JArr(<<JNum(1)>>)>>)).sheet>>]

\* up to MaxWrites table entries on two sheets, with and without data, after
\* a mapping and a template or none
TableCalls ==
  {GwArgs(jsonData, Given(mappings), tables, template, NoOptions, "none") :
     jsonData \in {DocTable, DocRows, DocOwnData, DocEmptyTable, DocNullTable},
     mappings \in {<<>>, <<MapName>>},
     tables \in UNION {[1..n -> {TabSales, TabStock, TabCopy, TabBadStart}] : n \in 1..MaxWrites},
     template \in {NoBuffer, XlsxBuffer(TemplateTabled)}}

BenchCalls == FieldCalls \cup OptionCalls \cup OrderCalls \cup TableCalls

\* the rows of the tables built on their own: value lists as long as, longer
\* and shorter than the columns, objects with every key, with falsy values
\* and with a key missing, and null
TableRows ==
  {JArr(<<JNum(1), JNum(2)>>), JArr(<<JNum(3), JNum(4)>>),
   JArr(<<JNum(5), JNum(0), JNum(7)>>), JArr(<<JBool(FALSE)>>),
   JObj([P |-> JNum(1), Q |-> JStr("x")]), JObj([P |-> JNum(0), Q |-> JBool(FALSE)]),
   JObj([Q |-> JNum(9)]), JNull}

TableDataSets ==
  {JArr(rows) : rows \in UNION {[1..n -> TableRows] : n \in 0..MaxRows}}
  \cup {JNull, Undefined}

TableStyles ==
  {NoTableStyle,
   [NoTableStyle EXCEPT !.rowBgColor = "EEEEEE"],
   [NoTableStyle EXCEPT !.alternateRowBgColor = "DDDDDD"],
   [NoTableStyle EXCEPT !.rowBgColor = "EEEEEE", !.alternateRowBgColor = "DDDDDD"],
   [NoTableStyle EXCEPT !.headerBgColor = "000080", !.headerFontColor = "FFFFFF",
                        !.rowBgColor = "EEEEEE"]}

\* every style with one and with two columns at A1, and tables at another
\* start cell and at one that cannot be read
BenchTables ==
  {TableConfig("Sheet1", "Sales", A1, columns, style) :
     columns \in {<<"P", "Q">>, <<"P">>}, style \in TableStyles}
  \cup {TableConfig("Sheet1", "Sales", B2, <<"P", "Q">>, NoTableStyle),
        TableConfig("Sheet1", "Sales", B2, <<"P">>,
                    [NoTableStyle EXCEPT !.rowBgColor = "EEEEEE",
                                         !.alternateRowBgColor = "DDDDDD"]),
        TableConfig("Sheet1", "Sales", LowerA1, <<"P", "Q">>, NoTableStyle)}

\* a sheet with a cell written and filled before the table is built
SheetWritten ==
  PutCell(NewSheet("Sheet1"), <<2, 1>>,
          [BlankCell EXCEPT !.value = JStr("old"), !.fill = "FFCCCCCC"])

Apply(name, arguments, result) ==
  /\ fn' = name
  /\ arg' = arguments
  /\ out' = result
  /\ UNCHANGED <<serverVars, heap, calls>>

ColumnLetterToNumber ==
  /\ fn = ""
  /\ \E letter \in ColumnLetters :
       Apply("columnLetterToNumber", letter, columnLetterToNumber(letter))

NumberToColumnLetter ==
  /\ fn = ""
  /\ \E num \in ColumnNumbers :
       Apply("numberToColumnLetter", num, numberToColumnLetter(num))

GetNestedValue ==
  /\ fn = ""
  /\ \E obj \in NestedDocs, path \in Paths :
       Apply("getNestedValue", [obj |-> obj, path |-> path], getNestedValue(obj, path))

GenerateWorkbook ==
  /\ fn = ""
  /\ \E a \in BenchCalls :
       Apply("generateWorkbook", a,
             generateWorkbook(a.jsonData, a.mappingConfig, a.tableConfigs, a.templateBuffer,
                              a.options, a.fault))

CreateTable ==
  /\ fn = ""
  /\ \E worksheet \in {NewSheet("Sheet1"), SheetWritten}, tableConfig \in BenchTables,
        tableData \in TableDataSets :
       Apply("createTable",
             [worksheet |-> worksheet, tableConfig |-> tableConfig, tableData |-> tableData],
             createTable(worksheet, tableConfig, tableData))

\* the bodies generateExcel is applied to: every mode, null and a mode
\* outside the schema included, every emailAddress, and file names absent,
\* plain and with a line break
HandlerModes == Modes \cup {JNull}

HandlerBodies ==
  {Body(Field("json", DocPlain), m, Field("absent", <<>>), Field("absent", NoOptions),
        mode, e, fileName) :
     m \in {Field("json", <<MapName>>), Field("absent", <<>>)},
     mode \in HandlerModes, e \in EmailAddresses,
     fileName \in {Undefined, JStr("report.xlsx")} \cup {JStr(n) : n \in HeaderUnsafeNames}}

\* generateExcel on a body as received, or on the body validateExcelRequest
\* hands on when it accepts it
GenerateExcelOn ==
  /\ fn = ""
  /\ \E raw \in HandlerBodies, validated \in BOOLEAN, fault \in {"none", "write"},
        mail \in MailStates :
       /\ validated => validateExcelRequest(raw).next
       /\ Apply("generateExcel",
                [raw |-> raw, validated |-> validated,
                 body |-> IF validated THEN validateExcelRequest(raw).value ELSE raw,
                 fault |-> fault, mail |-> mail],
                generateExcel(IF validated THEN validateExcelRequest(raw).value ELSE raw,
                              NoFile, fault, mail))

\* the result is dropped
Return ==
  /\ fn # ""
  /\ fn' = ""
  /\ arg' = <<>>
  /\ out' = <<>>
  /\ UNCHANGED <<serverVars, heap, calls>>

UtilNext ==
  \/ ColumnLetterToNumber
  \/ NumberToColumnLetter
  \/ GetNestedValue
  \/ GenerateExcelOn
  \/ GenerateWorkbook
  \/ CreateTable
  \/ Return

UtilSpec == Init /\ [][UtilNext]_vars

(***************************************************************************)
(* Calls of generateWorkbook in flight together.  The function is async:   *)
(* a call runs until it awaits (the load of the template, the              *)
(* serialization), other calls run meanwhile, and it goes on when what it  *)
(* awaits has settled.  The workbooks live in the heap; a call holds the   *)
(* reference of the one it works on.                                       *)
(***************************************************************************)
\* const workbook = new ExcelJS.Workbook() with one workbook for the module,
\* created by the first call and used by all
ConstructShared(store) ==
  [heap |-> IF store = <<>> THEN <<NewWorkbook>> ELSE store, ref |-> 1]

\* const workbook = new ExcelJS.Workbook(): a new object of the heap
Construct(store) == [heap |-> Append(store, NewWorkbook), ref |-> Len(store) + 1]

\* the arguments of the calls in flight
CallArgs ==
  {GwArgs(DocPlain, Given(<<MapName>>), <<>>, NoBuffer, NoOptions, "none"),
   GwArgs(DocTable, Given(<<MapFive>>), <<TabSales>>, NoBuffer,
          ExcelOptions(Undefined, JBool(TRUE), Undefined, Undefined), "none"),
   GwArgs(DocTable, Given(<<MapTotal>>), <<>>, XlsxBuffer(TemplateFrozen), NoOptions, "none"),
   GwArgs(DocPlain, Given(<<MapName>>), <<>>, CorruptBuffer, NoOptions, "none"),
   GwArgs(DocPlain, Given(<<MapBadCell>>), <<>>, NoBuffer, NoOptions, "write"),
   GwArgs(DocPlain, Given(<<MapName>>), <<>>, XlsxBuffer(TemplateWorkbook), NoOptions,
          "autofit")}

\* the part of the try block between two awaits: mappings, tables, options
Synchronous(run, a) ==
  OptionsLoop(
    TableLoop(ProcessMappings(run, a.jsonData, a.mappingConfig, a.fault),
              a.jsonData, a.tableConfigs, 1),
    a.options, 1, a.fault)

\* the call as it awaits the load
AwaitingLoad(a, ref) ==
  [at |-> "load", args |-> a, ref |-> ref, run |-> StartRun, result |-> <<>>]

\* the call after its synchronous part: it awaits writeBuffer, or the catch
\* has thrown
Suspended(a, ref, run) ==
  IF run.failed
  THEN [at |-> "done", args |-> a, ref |-> ref, run |-> run, result |-> Outcome(run)]
  ELSE [at |-> "write", args |-> a, ref |-> ref, run |-> run, result |-> <<>>]

\* the call once writeBuffer has settled
Settled(call, run) == [call EXCEPT !.at = "done", !.run = run, !.result = Outcome(run)]

\* the call runs up to its first await on the workbook made for it
Entered(a, made) ==
  IF a.templateBuffer.kind # "none"
  THEN [heap |-> made.heap, call |-> AwaitingLoad(a, made.ref)]
  ELSE LET run == Synchronous(LoadInto(RunOn(made.heap[made.ref]), a.templateBuffer), a)
       IN  [heap |-> [made.heap EXCEPT ![made.ref] = run.wb],
            call |-> Suspended(a, made.ref, run)]

\* generateWorkbook is called
Invoke ==
  /\ Len(calls) < MaxCalls
  /\ \E a \in CallArgs :
       LET entered == Entered(a, Construct(heap))
       IN  /\ heap' = entered.heap
           /\ calls' = Append(calls, entered.call)
  /\ UNCHANGED <<serverVars, fn, arg, out>>

\* the load of a call has settled: the call goes on to its next await
LoadSettles ==
  /\ \E c \in 1..Len(calls) :
       /\ calls[c].at = "load"
       /\ LET run == Synchronous(LoadInto(RunOn(heap[calls[c].ref]),
                                          calls[c].args.templateBuffer),
                                 calls[c].args)
          IN  /\ heap' = [heap EXCEPT ![calls[c].ref] = run.wb]
              /\ calls' = [calls EXCEPT ![c] = Suspended(calls[c].args, calls[c].ref, run)]
  /\ UNCHANGED <<serverVars, fn, arg, out>>

\* writeBuffer of a call has settled: the bytes of its workbook, or an error
WriteSettles ==
  /\ \E c \in 1..Len(calls) :
       /\ calls[c].at = "write"
       /\ calls' = [calls EXCEPT ![c] =
                      Settled(calls[c],
                              WriteStep([calls[c].run EXCEPT !.wb = heap[calls[c].ref]],
                                        calls[c].args.fault))]
  /\ UNCHANGED <<serverVars, fn, arg, out, heap>>

CallNext ==
  \/ Invoke
  \/ LoadSettles
  \/ WriteSettles

CallSpec == Init /\ [][CallNext]_vars

(***************************************************************************)
(* What the states of a request tell about it.                             *)
(***************************************************************************)
Controllers ==
  {"generateExcel", "downloadExcel", "emailExcel", "uploadTemplate", "validateTemplate",
   "bulkGenerate"}

Ran(name) == \E k \in 1..Len(invoked) : invoked[k] = name

ControllerRan == \E k \in 1..Len(invoked) : invoked[k] \in Controllers

\* the number of entries of a list of bulkGenerate that carry index i
IndexCount(list, i) == Cardinality({k \in 1..Len(list) : list[k].index = i})

Ascending(list) == \A a, b \in 1..Len(list) : a < b => list[a].index < list[b].index

\* the calls of generateWorkbook bulkGenerate made for requests[i]
BulkCalls(i) ==
  {k \in 1..Len(gwLog) : gwLog[k].caller = "bulkGenerate" /\ gwLog[k].index = i}

BulkSucceeded(i) == \E k \in BulkCalls(i) : gwLog[k].result.outcome = "buffer"

BulkThrew(i) == \E k \in BulkCalls(i) : gwLog[k].result.outcome = "throw"

\* the exceptions of a call that left the step they were raised in
Unswallowed(r) == {j \in 1..Len(r.raised) : ~r.raised[j].swallowed}

LastStep(r) == r.steps[Len(r.steps)]

Began(r, step) == \E j \in 1..Len(r.steps) : r.steps[j] = step

RaisedAt(r, step) == \E j \in 1..Len(r.raised) : r.raised[j].at = step

(***************************************************************************)
(* C1.  bulkGenerate: results and errors partition the indices.            *)
(***************************************************************************)
\* C1: while bulkGenerate loops over a non-empty array and when it has
\* answered, every index below the loop variable is exactly once in exactly
\* one of results and errors: in results iff its generateWorkbook call
\* returned, in errors iff the call threw (or the entry was null, for which
\* no call is made); one call was made for every entry that is not null,
\* whatever became of the entries before it; both lists are in ascending
\* order of index; the answer is sent after the last entry only and carries
\* the two lists; three requests of which only index 1 fails give two
\* results, one error, and errors[0].index = 1.
C1_BulkPartition ==
  (req.route = "bulk" /\ ~BulkRejected(req.bulk) /\ pc \in {"bulk", "done"}) =>
    /\ cursor <= Len(req.bulk.items)
    /\ \A i \in 0..(cursor - 1) :
         /\ IndexCount(results, i) + IndexCount(errors, i) = 1
         /\ (IndexCount(results, i) = 1) <=> BulkSucceeded(i)
         /\ (IndexCount(errors, i) = 1) <=> (BulkThrew(i) \/ req.bulk.items[i + 1].isNull)
         /\ Cardinality(BulkCalls(i)) = (IF req.bulk.items[i + 1].isNull THEN 0 ELSE 1)
    /\ \A k \in 1..Len(results) : results[k].index \in 0..(cursor - 1)
    /\ \A k \in 1..Len(errors) : errors[k].index \in 0..(cursor - 1)
    /\ Ascending(results)
    /\ Ascending(errors)
    /\ pc = "done" =>
         /\ cursor = Len(req.bulk.items)
         /\ Len(responses) = 1
         /\ responses[1].status = 200
         /\ responses[1].results = results
         /\ responses[1].errors = errors
         /\ (Len(req.bulk.items) = 3 /\ BulkSucceeded(0) /\ ~BulkSucceeded(1)
               /\ BulkSucceeded(2)) =>
              /\ Len(responses[1].results) = 2
              /\ Len(responses[1].errors) = 1
              /\ responses[1].errors[1].index = 1

\* three requests, the one at index 1 malformed, answered
C1_Witness ==
  /\ pc = "done"
  /\ req.route = "bulk"
  /\ Len(req.bulk.items) = 3
  /\ req.bulk.items[2] = ItemMalformed
  /\ BulkSucceeded(0) /\ BulkThrew(1) /\ BulkSucceeded(2)
  /\ Len(responses[1].results) = 2
  /\ responses[1].errors[1].index = 1

(***************************************************************************)
(* C2.  generateWorkbook: a buffer, or one error.                          *)
(***************************************************************************)
\* C2 (amended): every call of generateWorkbook returns the serialized
\* workbook or throws; it throws exactly when an exception left a step (the
\* load, a mapping, a table, the protection of a sheet, the serialization),
\* and then no buffer is returned, that exception is the only one to leave a
\* step, the step it left is the last step begun, and the message is the
\* prefix followed by its message ('Unknown error' for a value that is no
\* Error); an exception of the auto-fit option is caught where it is raised
\* and does not stop the call.
C2_SingleFailure ==
  \A k \in 1..Len(gwLog) :
    /\ gwLog[k].result.outcome \in {"buffer", "throw"}
    /\ (gwLog[k].result.outcome = "throw") <=> (Unswallowed(gwLog[k].result) # {})
    /\ gwLog[k].result.outcome = "buffer" =>
         /\ gwLog[k].result.buffer = XlsxBuffer(gwLog[k].result.wb)
         /\ gwLog[k].result.message = ""
         /\ LastStep(gwLog[k].result) = <<"write", 0>>
    /\ gwLog[k].result.outcome = "throw" =>
         /\ gwLog[k].result.buffer = NoBuffer
         /\ Unswallowed(gwLog[k].result) = {Len(gwLog[k].result.raised)}
         /\ Escaped(gwLog[k].result).at = LastStep(gwLog[k].result)
         /\ gwLog[k].result.message =
              GenerationPrefix \o (IF Escaped(gwLog[k].result).isError
                                   THEN Escaped(gwLog[k].result).message
                                   ELSE "Unknown error")
    /\ \A j \in 1..Len(gwLog[k].result.raised) :
         gwLog[k].result.raised[j].swallowed =>
           /\ gwLog[k].result.raised[j].at[1] = "options"
           /\ Began(gwLog[k].result, <<"options", gwLog[k].result.raised[j].at[2]>>)

\* a call that threw in its first table after it had written a mapping
C2_Witness ==
  \E k \in 1..Len(gwLog) :
    /\ gwLog[k].result.outcome = "throw"
    /\ Began(gwLog[k].result, <<"mapping", 1>>)
    /\ LastStep(gwLog[k].result) = <<"table", 1>>
    /\ gwLog[k].result.buffer = NoBuffer

\* C2 as stated: whenever any step of a call raises an exception, the
\* auto-fit of the options included, the call throws the prefixed message of
\* that exception, returns no buffer and begins no later step.
C2_AnyExceptionAborts ==
  \A k \in 1..Len(gwLog) :
    gwLog[k].result.raised # <<>> =>
      /\ gwLog[k].result.outcome = "throw"
      /\ gwLog[k].result.buffer = NoBuffer
      /\ gwLog[k].result.raised[1].at = LastStep(gwLog[k].result)
      /\ gwLog[k].result.raised[1].isError =>
           gwLog[k].result.message = GenerationPrefix \o gwLog[k].result.raised[1].message

(***************************************************************************)
(* C3.  validateTemplate never raises.                                     *)
(***************************************************************************)
\* C3: every call of validateTemplate returns: for a buffer the load rejects,
\* isValid = false, no sheet and an error string that is not empty; for a
\* buffer the load accepts, isValid = true, the names of the sheets in the
\* order of the workbook, and no error.
C3_ValidateNeverRaises ==
  \A k \in 1..Len(inspectLog.validated) :
    /\ ~inspectLog.validated[k].raises
    /\ file.buffer.kind = "xlsx" =>
         /\ inspectLog.validated[k].isValid
         /\ inspectLog.validated[k].sheets =
              [i \in 1..Len(file.buffer.wb.sheets) |-> file.buffer.wb.sheets[i].name]
         /\ ~inspectLog.validated[k].hasError
    /\ file.buffer.kind # "xlsx" =>
         /\ ~inspectLog.validated[k].isValid
         /\ inspectLog.validated[k].sheets = <<>>
         /\ inspectLog.validated[k].hasError
         /\ inspectLog.validated[k].error # ""

\* a corrupt buffer was validated and reported invalid, with a message
C3_Witness ==
  /\ Len(inspectLog.validated) = 1
  /\ file.buffer.kind = "corrupt"
  /\ ~inspectLog.validated[1].isValid
  /\ inspectLog.validated[1].error = LoadErrorMessage
  /\ Len(responses) = 1
  /\ responses[1].status = 400

Violations(b) ==
  (IF b.jsonData.kind = "absent" \/ b.jsonData.val.t # "obj" THEN {"jsonData"} ELSE {})
  \cup (IF b.mappingConfig.kind = "absent" THEN {"mappingConfig"}
        ELSE {"mappingConfig." \o NumberText(i - 1) \o ".cell" :
                i \in {j \in 1..Len(b.mappingConfig.val) :
                         ~MatchesCellPattern(b.mappingConfig.val[j].cell)}})
  \cup (IF b.tables.kind = "absent" THEN {}
        ELSE {"tables." \o NumberText(i - 1) \o ".startCell" :
                i \in {j \in 1..Len(b.tables.val) :
                         ~MatchesCellPattern(b.tables.val[j].startCell)}})
  \cup (IF b.mode \in {Undefined, JStr("download"), JStr("email")} THEN {} ELSE {"mode"})
  \cup (IF \/ b.emailAddress = Undefined /\ b.mode = JStr("email")
           \/ b.emailAddress # Undefined /\ ~IsEmail(b.emailAddress.s)
        THEN {"emailAddress"} ELSE {})

\* C5: on /generate, /download and /email, once the validation has run on a
\* body with a text field that is no JSON or with a violation of the schema (a
\* cell or startCell outside the pattern among them), the request is over with
\* one response of status 400, no controller has run, generateWorkbook was not
\* called and no mail was sent; for violations of the schema the response
\* lists each violated field once, with a message.
C5_ValidationRejects ==
  (/\ req.route \in GenerateRoutes
   /\ Ran("validateExcelRequest")
   /\ (ParseThrows(req.body) \/ Violations(req.body) # {})) =>
    /\ pc = "done"
    /\ Len(responses) = 1
    /\ responses[1].status = 400
    /\ ~ControllerRan
    /\ gwLog = <<>>
    /\ mailLog = <<>>
    /\ ~ParseThrows(req.body) =>
         /\ Len(responses[1].details) = Cardinality(Violations(req.body))
         /\ {responses[1].details[k].field : k \in 1..Len(responses[1].details)}
              = Violations(req.body)
         /\ \A k \in 1..Len(responses[1].details) : responses[1].details[k].message # ""

\* a body with a cell outside the pattern and a second violation was answered
\* 400 with both fields
C5_Witness ==
  /\ req.route = "generate"
  /\ Ran("validateExcelRequest")
  /\ ~ParseThrows(req.body)
  /\ "mappingConfig.0.cell" \in Violations(req.body)
  /\ Cardinality(Violations(req.body)) >= 2
  /\ Len(responses) = 1
  /\ responses[1].status = 400
  /\ Len(responses[1].details) >= 2

(***************************************************************************)
(* C6.  The references generateWorkbook receives.                          *)
(***************************************************************************)
\* C6 as stated: in every call of generateWorkbook, from /generate, /download,
\* /email or /bulk, every mapping cell and every table startCell matches the
\* pattern.
C6_ReferencesChecked ==
  \A k \in 1..Len(gwLog) :
    /\ \A i \in 1..Len(gwLog[k].mappingConfig.items) :
         MatchesCellPattern(gwLog[k].mappingConfig.items[i].cell)
    /\ \A i \in 1..Len(gwLog[k].tableConfigs) :
         MatchesCellPattern(gwLog[k].tableConfigs[i].startCell)

(***************************************************************************)
(* C7.  Uploads the upload middleware rejects.                             *)
(***************************************************************************)
\* C7 as stated: a request whose file is over the size limit or is refused by
\* fileFilter is answered with one response of a status from 400 to 499, 413
\* when the file is over the limit, and no controller runs for it.
C7_RejectedUploadIs4xx ==
  (/\ pc = "done"
   /\ req.route \in GenerateRoutes \cup TemplateRoutes
   /\ req.file.present
   /\ (req.file.size > MaxFileSize \/ ~fileFilter(req.file))) =>
    /\ Len(responses) = 1
    /\ responses[1].status \in 400..499
    /\ req.file.size > MaxFileSize => responses[1].status = 413
    /\ ~ControllerRan

(***************************************************************************)
(* C8.  generateExcel answers the exceptions of its callees.               *)
(***************************************************************************)
\* C8: when generateExcel has run (by itself or through downloadExcel or
\* emailExcel), a generateWorkbook that threw or a sendEmailWithAttachment
\* that threw gives exactly one response: status 500, an error body with the
\* message of that exception, no file and no envelope; no mail is sent after
\* a generateWorkbook that threw; and nothing reaches the error handler.
C8_ExceptionsAnswered500 ==
  (req.route \in GenerateRoutes /\ ControllerRan) =>
    /\ pc = "done"
    /\ err = NoError
    /\ ~Ran("errorHandler")
    /\ \A k \in 1..Len(gwLog) :
         gwLog[k].result.outcome = "throw" =>
           /\ responses = <<Response(500, "error", "Failed to generate Excel file",
                                     gwLog[k].result.message)>>
           /\ mailLog = <<>>
    /\ \A k \in 1..Len(mailLog) :
         mailLog[k].result.thrown =>
           responses = <<Response(500, "error", "Failed to generate Excel file",
                                  mailLog[k].result.message)>>

\* the mail transport failed after a successful generation, and the answer
\* is the 500 with the message of the mail error
C8_Witness ==
  /\ req.route = "email"
  /\ Ran("emailExcel")
  /\ Len(gwLog) = 1
  /\ gwLog[1].result.outcome = "buffer"
  /\ Len(mailLog) = 1
  /\ mailLog[1].result.thrown
  /\ Len(responses) = 1
  /\ responses[1].status = 500
  /\ responses[1].message = mailLog[1].result.message

(***************************************************************************)
(* C9 and C10.  The mode of a request and its emailAddress.                *)
(***************************************************************************)
\* the mode a route handles a request in: /download and /email set their own,
\* /generate takes the mode of the body, 'download' when there is none
EffectiveMode ==
  CASE req.route = "download" -> JStr("download")
    [] req.route = "email" -> JStr("email")
    [] OTHER -> IF req.body.mode = Undefined THEN JStr("download") ELSE req.body.mode

\* a 400 that asks for the emailAddress
AsksForEmailAddress(response) ==
  /\ response.status = 400
  /\ \/ response.error \in {"Email address required", "Email address required for email mode"}
     \/ \E k \in 1..Len(response.details) :
          response.details[k] = Detail("emailAddress", "is required")

\* C9 as stated: for a request of /generate, /download or /email that the
\* validation has seen: in email mode without an emailAddress it is answered
\* 400 and no mail is sent; in download mode it is never answered with a 400
\* asking for the emailAddress; and a mail is sent only in email mode, with an
\* emailAddress, after generateWorkbook returned.
C9_EmailAddressIffEmailMode ==
  (req.route \in GenerateRoutes /\ pc = "done" /\ Ran("validateExcelRequest")) =>
    /\ (EffectiveMode = JStr("email") /\ ~Truthy(req.body.emailAddress)) =>
         /\ Len(responses) = 1
         /\ responses[1].status = 400
         /\ mailLog = <<>>
    /\ EffectiveMode = JStr("download") =>
         \A k \in 1..Len(responses) : ~AsksForEmailAddress(responses[k])
    /\ mailLog # <<>> =>
         /\ EffectiveMode = JStr("email")
         /\ Truthy(req.body.emailAddress)
         /\ Len(gwLog) = 1
         /\ gwLog[1].result.outcome = "buffer"

\* C10 as stated: a request of /download whose mode is absent, 'download' or
\* 'email' and whose body the validation accepts once its mode is 'download'
\* is answered with the file (or with the 500 of a failed generation), never
\* with a 400 and never with the envelope of a mail.
C10_DownloadIgnoresMode ==
  (/\ req.route = "download"
   /\ pc = "done"
   /\ Ran("validateExcelRequest")
   /\ req.body.mode \in {Undefined, JStr("download"), JStr("email")}
   /\ validateExcelRequest([req.body EXCEPT !.mode = JStr("download")]).next) =>
    /\ Len(responses) = 1
    /\ mailLog = <<>>
    /\ \/ responses[1].kind = "file" /\ responses[1].status = 200
       \/ /\ responses[1].status = 500
          /\ Len(gwLog) = 1
          /\ gwLog[1].result.outcome = "throw"


(***************************************************************************)
(* C11.  Column letters and column numbers.                                *)
(***************************************************************************)
\* C11: the two conversions are inverse to each other: the letters of a
\* non-empty string over A..Z give a number from 1 on that converts back to
\* the same string, and a number from 1 on gives a non-empty string over
\* A..Z that converts back to the same number; A is 1, Z is 26, AA is 27.
C11_ColumnRoundTrip ==
  /\ fn = "columnLetterToNumber" =>
        /\ out >= 1
        /\ numberToColumnLetter(out) = arg
  /\ fn = "numberToColumnLetter" =>
        /\ Len(out) >= 1
        /\ \A i \in 1..Len(out) : IsUpper(out[i])
        /\ columnLetterToNumber(out) = arg
  /\ (fn = "columnLetterToNumber" /\ arg = <<"A">>) => out = 1
  /\ (fn = "columnLetterToNumber" /\ arg = <<"Z">>) => out = 26
  /\ (fn = "columnLetterToNumber" /\ arg = <<"A", "A">>) => out = 27
  /\ (fn = "numberToColumnLetter" /\ arg = 26) => out = <<"Z">>
  /\ (fn = "numberToColumnLetter" /\ arg = 27) => out = <<"A", "A">>

\* the last column of two letters was converted both ways
C11_Witness ==
  \/ fn = "columnLetterToNumber" /\ arg = <<"Z", "Z">> /\ out = 702
  \/ fn = "numberToColumnLetter" /\ arg = 702 /\ out = <<"Z", "Z">>

(***************************************************************************)
(* C12.  getNestedValue against the rule of the specification.             *)
(***************************************************************************)
\* the properties a JSON document holds: the keys of an object, the elements
\* and the length of an array
Holds(v, key) ==
  \/ v.t = "obj" /\ key \in DOMAIN v.o /\ v.o[key] # Undefined
  \/ v.t = "arr" /\ (key = "length" \/ (IsDigit(key) /\ DigitValue(key) < Len(v.a)))

\* stepping key by key into nested objects; null from the first segment that
\* is missing on, and whenever the value stepped into is no object
RECURSIVE SteppedInto(_, _, _)
SteppedInto(current, segs, i) ==
  IF i > Len(segs) THEN current
  ELSE IF Holds(current, SegmentKey(segs[i]))
  THEN SteppedInto(GetProp(current, SegmentKey(segs[i])), segs, i + 1)
  ELSE JNull

\* C12: for every document and every dotted path getNestedValue returns the
\* value reached by stepping key by key into nested objects, and null when
\* a segment is missing or the value stepped into is null, a number, a
\* string or a boolean, whatever segments follow; {a: {b: 5}} gives 5 for
\* 'a.b' and null for 'a.c'.
C12_NestedValueRule ==
  fn = "getNestedValue" => out = SteppedInto(arg.obj, Split(arg.path), 1)

(***************************************************************************)
(* C13.  The content a mapping gives its cell.                             *)
(***************************************************************************)
\* the mappings of a call that are the only write to their cell
SoleWrites(a) ==
  IF ~a.mappingConfig.defined \/ a.tableConfigs # <<>> THEN {}
  ELSE {i \in 1..Len(a.mappingConfig.items) :
          /\ MatchesCellPattern(a.mappingConfig.items[i].cell)
          /\ \A j \in 1..Len(a.mappingConfig.items) :
                (/\ a.mappingConfig.items[j].sheet = a.mappingConfig.items[i].sheet
                 /\ a.mappingConfig.items[j].cell = a.mappingConfig.items[i].cell) => j = i}

\* the cell of a mapping in the workbook of a call
CellOfMapping(wb, mapping) ==
  CellAt(wb.sheets[getWorksheet(wb, mapping.sheet)], CellKey(mapping.cell))

\* the rule of the specification for the field value v
ContentRule(cell, mapping, v) ==
  IF mapping.formula # ""
  THEN /\ cell.isFormula
       /\ cell.formula = mapping.formula
       /\ cell.value = (IF v = JNull THEN JNum(0) ELSE v)
  ELSE /\ ~cell.isFormula
       /\ cell.value = (IF v = JNull THEN JStr("") ELSE v)

\* C13: after a call that returned its buffer, the cell of every mapping
\* that is the only write to it holds, with v the resolved field value: the
\* formula with cached result v, or 0 exactly when v is null, if the
\* mapping has a formula; v itself, or the empty string exactly when v is
\* null, if it has none.  0, false and '' are stored unchanged in both cases.
C13_MappedContentRule ==
  (fn = "generateWorkbook" /\ out.outcome = "buffer") =>
    \A i \in SoleWrites(arg) :
      ContentRule(CellOfMapping(out.wb, arg.mappingConfig.items[i]),
                  arg.mappingConfig.items[i],
                  getNestedValue(arg.jsonData, arg.mappingConfig.items[i].fieldName))

(***************************************************************************)
(* C14.  The header row and the registered table of createTable.           *)
(***************************************************************************)
StartRow(tc) == parseInt(MatchDigits(tc.startCell))

StartCol(tc) == columnLetterToNumber(MatchLetters(tc.startCell))

\* createTable was applied to a non-empty array of rows
TableApplied ==
  /\ fn = "createTable"
  /\ arg.tableData.t = "arr"
  /\ Len(arg.tableData.a) > 0

\* the start cell can be read and no row is null
TableBuildable ==
  /\ TableApplied
  /\ Len(arg.tableConfig.columns) >= 1
  /\ MatchesCellPattern(arg.tableConfig.startCell)
  /\ \A i \in 1..Len(arg.tableData.a) : arg.tableData.a[i] # JNull

LastTable(sheet) == sheet.tables[Len(sheet.tables)]

\* C14: for a table description with at least one column whose start cell
\* can be read, and a non-empty array of rows none of which is null,
\* createTable returns, the cells from the start cell rightwards hold the
\* column names, and exactly one table is added to the sheet: it has the
\* name tableName, the header row enabled, the columns, one row per data
\* row, and the range from the start cell to column
\* startCol + columns.length - 1 and row startRow + dataRows.length.
\* Columns [P, Q], rows [[1, 2], [3, 4]] and start cell A1 give A1:B3.
C14_TableRegistered ==
  TableBuildable =>
    /\ ~out.thrown
    /\ \A j \in 1..Len(arg.tableConfig.columns) :
          CellAt(out.sheet, <<StartRow(arg.tableConfig), StartCol(arg.tableConfig) + j - 1>>).value
            = JStr(arg.tableConfig.columns[j])
    /\ Len(out.sheet.tables) = Len(arg.worksheet.tables) + 1
    /\ LastTable(out.sheet).name = arg.tableConfig.tableName
    /\ LastTable(out.sheet).headerRow
    /\ LastTable(out.sheet).columns = arg.tableConfig.columns
    /\ Len(LastTable(out.sheet).rows) = Len(arg.tableData.a)
    /\ LastTable(out.sheet).ref =
          Text(arg.tableConfig.startCell) \o ":"
          \o Text(numberToColumnLetter(StartCol(arg.tableConfig)
                                       + Len(arg.tableConfig.columns) - 1))
          \o NumberText(StartRow(arg.tableConfig) + Len(arg.tableData.a))
    /\ (/\ arg.tableConfig.startCell = A1
        /\ arg.tableConfig.columns = <<"P", "Q">>
        /\ arg.tableData = JArr(<<JArr(<<JNum(1), JNum(2)>>), JArr(<<JNum(3), JNum(4)>>)>>))
       => /\ LastTable(out.sheet).ref = "A1:B3"
          /\ LastTable(out.sheet).rows = <<<<JNum(1), JNum(2)>>, <<JNum(3), JNum(4)>>>>
          /\ CellAt(out.sheet, <<1, 1>>).value = JStr("P")
          /\ CellAt(out.sheet, <<1, 2>>).value = JStr("Q")
          /\ CellAt(out.sheet, <<3, 2>>).value = JNum(4)

\* the table of the example was built
C14_Witness ==
  /\ TableBuildable
  /\ arg.tableConfig.startCell = A1
  /\ arg.tableConfig.columns = <<"P", "Q">>
  /\ arg.tableData = JArr(<<JArr(<<JNum(1), JNum(2)>>), JArr(<<JNum(3), JNum(4)>>)>>)
  /\ Len(out.sheet.tables) = 1
  /\ out.sheet.tables[1].ref = "A1:B3"

(***************************************************************************)
(* C15.  The values of the data rows.                                      *)
(***************************************************************************)
\* createTable returned after building a table from a non-empty array
TableBuilt == TableApplied /\ ~out.thrown

\* the columns of data row i (from 0) the claim speaks of: every column for
\* an object row, the columns the row has a value for in a value list
ColumnsOfRow(i) ==
  CASE arg.tableData.a[i + 1].t = "obj" -> 0..(Len(arg.tableConfig.columns) - 1)
    [] arg.tableData.a[i + 1].t = "arr" ->
         {j \in 0..(Len(arg.tableConfig.columns) - 1) : j < Len(arg.tableData.a[i + 1].a)}
    [] OTHER -> {}

\* the value the claim expects in column j of data row i
ExpectedValue(i, j) ==
  IF arg.tableData.a[i + 1].t = "arr" THEN arg.tableData.a[i + 1].a[j + 1]
  ELSE IF arg.tableConfig.columns[j + 1] \in DOMAIN arg.tableData.a[i + 1].o
  THEN arg.tableData.a[i + 1].o[arg.tableConfig.columns[j + 1]]
  ELSE JStr("")

DataCell(i, j) ==
  CellAt(out.sheet, <<StartRow(arg.tableConfig) + i + 1, StartCol(arg.tableConfig) + j>>)

\* C15: for every data row i and every column j, the cell at
\* (startRow + i + 1, startCol + j) and row i of the registered table hold
\* row[j] for a value list (the values past the columns are ignored) and,
\* for an object row, the value under the key columns[j] whenever the key
\* is present, 0 and false included, and the empty string only when the key
\* is absent.
C15_RowValues ==
  TableBuilt =>
    \A i \in 0..(Len(arg.tableData.a) - 1) :
      \A j \in ColumnsOfRow(i) :
        /\ DataCell(i, j).value = ExpectedValue(i, j)
        /\ LastTable(out.sheet).rows[i + 1][j + 1] = ExpectedValue(i, j)

(***************************************************************************)
(* C16.  The fill of the data rows.                                        *)
(***************************************************************************)
\* the colour the claim gives data row i: "" for none
RowColour(style, i) ==
  IF i % 2 = 0 THEN style.rowBgColor
  ELSE IF style.alternateRowBgColor # "" THEN style.alternateRowBgColor
  ELSE style.rowBgColor

\* C16: in every written data cell of data row i the fill is rowBgColor
\* when i is even and, when i is odd, alternateRowBgColor if it is
\* configured and rowBgColor otherwise; where that colour is not configured
\* (and so when neither colour is) the fill of the cell is left as it was.
\* Value lists and object rows follow the same rule.
C16_RowFill ==
  TableBuilt =>
    \A i \in 0..(Len(arg.tableData.a) - 1) :
      \A j \in ColumnsOfRow(i) :
        DataCell(i, j).fill =
          (IF RowColour(arg.tableConfig.style, i) # ""
           THEN "FF" \o RowColour(arg.tableConfig.style, i)
           ELSE CellAt(arg.worksheet,
                       <<StartRow(arg.tableConfig) + i + 1,
                         StartCol(arg.tableConfig) + j>>).fill)

\* an odd object row took the colour of the even rows for want of an
\* alternate colour, under an even row of that colour
C16_Witness ==
  /\ TableBuilt
  /\ Len(arg.tableData.a) = 2
  /\ arg.tableData.a[2].t = "obj"
  /\ arg.tableConfig.style.rowBgColor = "EEEEEE"
  /\ arg.tableConfig.style.alternateRowBgColor = ""
  /\ DataCell(1, 0).fill = "FFEEEEEE"
  /\ DataCell(0, 0).fill = "FFEEEEEE"

(***************************************************************************)
(* C17.  The options on the sheets of the workbook.                        *)
(***************************************************************************)
\* generateWorkbook was applied and returned its buffer
Generation == fn = "generateWorkbook" /\ out.outcome = "buffer"

StepIndex(r, step) == CHOOSE j \in 1..Len(r.steps) : r.steps[j] = step

\* every sheet has its turn of eachSheet, once, after every mapping and table
OptionsAfterWrites(r) ==
  /\ \A k \in 1..Len(r.wb.sheets) :
        Cardinality({j \in 1..Len(r.steps) : r.steps[j] = <<"options", k>>}) = 1
  /\ \A j, l \in 1..Len(r.steps) :
        (r.steps[j][1] = "options" /\ r.steps[l][1] \in {"mapping", "table"}) => l < j

FixedWidths == [c \in 1..AutoFitColumns |-> AutoFitWidth]

\* sheet k as the template had it: a sheet the call created starts as a new sheet
SheetBefore(a, r, k) ==
  IF a.templateBuffer.kind = "xlsx" /\ k <= Len(a.templateBuffer.wb.sheets)
  THEN a.templateBuffer.wb.sheets[k]
  ELSE NewSheet(r.wb.sheets[k].name)

\* C17 (amended): after a generateWorkbook that returned its buffer every
\* sheet of the workbook, those of the template and those created by the
\* call alike, had its turn of the options, after all mappings and tables:
\* columns 1..10 have the fixed width unless autoFitColumns is false or the
\* auto-fit of the sheet failed; the top row is frozen if freezeFirstRow is
\* set and the view is that of the template (unfrozen on a new sheet)
\* otherwise; the sheet is protected with the password, or the empty
\* string, if protectSheet is set and has the protection of the template
\* (none on a new sheet) otherwise.
C17_OptionsApplied ==
  Generation =>
    /\ OptionsAfterWrites(out)
    /\ \A k \in 1..Len(out.wb.sheets) :
          /\ (arg.options.autoFitColumns # JBool(FALSE) /\ ~RaisedAt(out, <<"options", k>>))
                => out.wb.sheets[k].widths = FixedWidths
          /\ out.wb.sheets[k].frozen =
                (Truthy(arg.options.freezeFirstRow) \/ SheetBefore(arg, out, k).frozen)
          /\ IF Truthy(arg.options.protectSheet)
             THEN /\ out.wb.sheets[k].protected
                  /\ out.wb.sheets[k].password =
                        (IF Truthy(arg.options.password) THEN arg.options.password.s ELSE "")
             ELSE /\ out.wb.sheets[k].protected = SheetBefore(arg, out, k).protected
                  /\ out.wb.sheets[k].password = SheetBefore(arg, out, k).password

\* a call with a template of two sheets that created two more and froze,
\* protected and sized all four
C17_Witness ==
  /\ Generation
  /\ arg.templateBuffer.kind = "xlsx"
  /\ Len(out.wb.sheets) = 4
  /\ arg.options.password = Undefined
  /\ \A k \in 1..Len(out.wb.sheets) :
        /\ out.wb.sheets[k].widths = FixedWidths
        /\ out.wb.sheets[k].frozen
        /\ out.wb.sheets[k].protected
        /\ out.wb.sheets[k].password = ""

\* C17 as stated: after a generateWorkbook that returned its buffer every
\* sheet has columns 1..10 at the fixed width unless autoFitColumns is
\* false, a frozen top row iff freezeFirstRow is set, and protection with
\* the password (or the empty string) iff protectSheet is set; no sheet is
\* skipped and the options come after all mappings and tables.
C17_OptionsOnEverySheet ==
  Generation =>
    /\ OptionsAfterWrites(out)
    /\ \A k \in 1..Len(out.wb.sheets) :
          /\ arg.options.autoFitColumns # JBool(FALSE)
                => out.wb.sheets[k].widths = FixedWidths
          /\ out.wb.sheets[k].frozen = Truthy(arg.options.freezeFirstRow)
          /\ out.wb.sheets[k].protected = Truthy(arg.options.protectSheet)
          /\ out.wb.sheets[k].protected =>
                out.wb.sheets[k].password =
                  (IF Truthy(arg.options.password) THEN arg.options.password.s ELSE "")

(***************************************************************************)
(* C19.  The order of the writes of one call.                              *)
(***************************************************************************)
\* the writes of a call, in the order of the claim: the mappings in list
\* order (1..n), then the tables in list order (n+1..n+m)
WriteCount(a) == Len(a.mappingConfig.items) + Len(a.tableConfigs)

IsMappingWrite(a, w) == w <= Len(a.mappingConfig.items)

MappingOf(a, w) == a.mappingConfig.items[w]

TableOf(a, w) == a.tableConfigs[w - Len(a.mappingConfig.items)]

\* the columns of data row r of a table that are written
WrittenColumns(tc, row) ==
  CASE row.t = "arr" -> {j \in 0..(Len(tc.columns) - 1) : j < Len(row.a)}
    [] row.t = "obj" -> 0..(Len(tc.columns) - 1)
    [] OTHER -> {}

\* write w of the call sets the cell key of the sheet
Hits(a, w, sheet, key) ==
  IF IsMappingWrite(a, w)
  THEN /\ MappingOf(a, w).sheet = sheet
       /\ MatchesCellPattern(MappingOf(a, w).cell)
       /\ CellKey(MappingOf(a, w).cell) = key
  ELSE /\ TableOf(a, w).sheet = sheet
       /\ TableData(a.jsonData).t = "arr"
       /\ Len(TableData(a.jsonData).a) > 0
       /\ \/ /\ key[1] = StartRow(TableOf(a, w))
             /\ key[2] - StartCol(TableOf(a, w)) \in 0..(Len(TableOf(a, w).columns) - 1)
          \/ /\ key[1] - StartRow(TableOf(a, w)) \in 1..Len(TableData(a.jsonData).a)
             /\ key[2] - StartCol(TableOf(a, w)) \in
                   WrittenColumns(TableOf(a, w),
                                  TableData(a.jsonData).a[key[1] - StartRow(TableOf(a, w))])

\* the value write w gives the cell it hits
WrittenValue(a, w, key) ==
  IF IsMappingWrite(a, w)
  THEN MappedCell(BlankCell, MappingOf(a, w),
                  getNestedValue(a.jsonData, MappingOf(a, w).fieldName)).value
  ELSE IF key[1] = StartRow(TableOf(a, w))
  THEN JStr(TableOf(a, w).columns[key[2] - StartCol(TableOf(a, w)) + 1])
  ELSE IF TableData(a.jsonData).a[key[1] - StartRow(TableOf(a, w))].t = "arr"
  THEN TableData(a.jsonData).a[key[1] - StartRow(TableOf(a, w))].a[
         key[2] - StartCol(TableOf(a, w)) + 1]
  ELSE ObjectCellValue(TableData(a.jsonData).a[key[1] - StartRow(TableOf(a, w))],
                       TableOf(a, w).columns[key[2] - StartCol(TableOf(a, w)) + 1])

\* the last of the writes that hit the cell, 0 when none does
LastWrite(a, sheet, key) == Largest({w \in 1..WriteCount(a) : Hits(a, w, sheet, key)})

\* the mapping and table steps of a call, in the order they were begun
WriteSteps(r) == SelectSeq(r.steps, LAMBDA st : st[1] \in {"mapping", "table"})

\* C19: in a call that returned its buffer the writes were made in this
\* order: every mapping in list order, then every table in list order; and
\* every cell of the workbook holds the value of the last write, in that
\* order, that set it (a later mapping overrides an earlier one, a header
\* or data cell of a table overrides any mapping, a later table an earlier
\* one), or what the template held if no write set it.
C19_WriteOrder ==
  Generation =>
    /\ WriteSteps(out) =
         [w \in 1..WriteCount(arg) |->
            IF IsMappingWrite(arg, w) THEN <<"mapping", w>>
            ELSE <<"table", w - Len(arg.mappingConfig.items)>>]
    /\ \A k \in 1..Len(out.wb.sheets) :
         \A key \in DOMAIN out.wb.sheets[k].cells :
           IF LastWrite(arg, out.wb.sheets[k].name, key) = 0
           THEN out.wb.sheets[k].cells[key].value = CellAt(SheetBefore(arg, out, k), key).value
           ELSE out.wb.sheets[k].cells[key].value =
                  WrittenValue(arg, LastWrite(arg, out.wb.sheets[k].name, key), key)

\* two mappings of cell A1, a mapping of the cell a table then writes its
\* first data value to, and a second table whose header takes that cell
C19_Witness ==
  /\ Generation
  /\ arg.jsonData = DocTable
  /\ arg.mappingConfig.items = <<MapName, MapFive, MapData>>
  /\ arg.tableConfigs = <<TabSales, TabOver>>
  /\ CellAt(out.wb.sheets[1], <<1, 1>>).value = JNum(5)
  /\ CellAt(out.wb.sheets[1], <<3, 1>>).value = JStr("P")
  /\ CellAt(out.wb.sheets[1], <<4, 1>>).value = JStr("X")
  /\ CellAt(out.wb.sheets[1], <<5, 1>>).value = JNum(1)

(***************************************************************************)
(* C18.  Calls in flight share no workbook.                                *)
(***************************************************************************)
\* what the call would give had it run alone
Alone(call) ==
  generateWorkbook(call.args.jsonData, call.args.mappingConfig, call.args.tableConfigs,
                   call.args.templateBuffer, call.args.options, call.args.fault)

\* C18: whatever the interleaving of the calls in flight, each call works
\* on a workbook of its own (no two calls hold the same reference); the
\* workbook of a call holds what that call alone wrote to it: nothing while
\* the call awaits the load, and from then on the workbook of the same call
\* run alone; and what a call returns or throws is what it returns or
\* throws when run alone with its arguments.
C18_NoSharedWorkbook ==
  \A c \in 1..Len(calls) :
    /\ calls[c].ref \in 1..Len(heap)
    /\ \A d \in 1..Len(calls) : d # c => calls[d].ref # calls[c].ref
    /\ calls[c].at = "load" => heap[calls[c].ref] = NewWorkbook
    /\ calls[c].at \in {"write", "done"} => heap[calls[c].ref] = Alone(calls[c]).wb
    /\ calls[c].at = "done" => calls[c].result = Alone(calls[c])

\* a call entered while another awaited the load of its template, wrote its
\* own workbook and returned its buffer; the workbook of the first is still
\* as it was created
C18_Witness ==
  /\ Len(calls) = 2
  /\ calls[1].at = "load"
  /\ calls[1].args.templateBuffer.kind = "xlsx"
  /\ calls[2].at = "done"
  /\ calls[2].result.outcome = "buffer"
  /\ Len(heap[calls[2].ref].sheets) = 1
  /\ heap[calls[1].ref] = NewWorkbook

(***************************************************************************)
(* C20.  getTemplateInfo follows a successful validation.                  *)
(***************************************************************************)
\* one of the two template handlers has answered
TemplateHandled ==
  pc = "done" /\ (Ran("uploadTemplate") \/ Ran("validateTemplate"))

\* a cell whose value is neither null, undefined nor the empty string
NonEmptyCell(cell) ==
  \/ cell.isFormula
  \/ (cell.value # JNull /\ cell.value # Undefined /\ cell.value # JStr(""))

\* C20: when uploadTemplate or validateTemplate has answered,
\* getTemplateInfo was called at most once, and only after validateTemplate
\* returned isValid = true for the buffer of the uploaded file; without a
\* file the answer is 400 and neither function was called; with isValid =
\* false the answer is 400 and getTemplateInfo was not called; and in the
\* info every sheet has hasData true iff one of its cells holds a value
\* that is neither null, undefined nor the empty string.
C20_InfoAfterValidation ==
  TemplateHandled =>
    /\ Len(inspectLog.validated) <= 1
    /\ Len(inspectLog.informed) <= 1
    /\ inspectLog.informed # <<>> =>
          /\ file.present
          /\ inspectLog.validated = <<validateTemplateUtil(file.buffer)>>
          /\ inspectLog.validated[1].isValid
          /\ inspectLog.informed = <<getTemplateInfo(file.buffer)>>
          /\ ~inspectLog.informed[1].thrown
          /\ Len(inspectLog.informed[1].sheets) = Len(file.buffer.wb.sheets)
          /\ \A i \in 1..Len(inspectLog.informed[1].sheets) :
                /\ inspectLog.informed[1].sheets[i].name = file.buffer.wb.sheets[i].name
                /\ inspectLog.informed[1].sheets[i].hasData <=>
                      \E key \in DOMAIN file.buffer.wb.sheets[i].cells :
                        NonEmptyCell(file.buffer.wb.sheets[i].cells[key])
    /\ ~file.present =>
          /\ Len(responses) = 1
          /\ responses[1].status = 400
          /\ inspectLog.validated = <<>>
          /\ inspectLog.informed = <<>>
    /\ (inspectLog.validated # <<>> /\ ~inspectLog.validated[1].isValid) =>
          /\ Len(responses) = 1
          /\ responses[1].status = 400
          /\ inspectLog.informed = <<>>

\* a valid template of four sheets was described: data on the sheet with a
\* title and on the sheet holding false, none on the sheet without cells
\* and on the sheet holding the empty string and null
C20_Witness ==
  /\ TemplateHandled
  /\ Len(responses) = 1
  /\ responses[1].status = 200
  /\ Len(inspectLog.informed) = 1
  /\ Len(inspectLog.informed[1].sheets) = 4
  /\ inspectLog.informed[1].sheets[1].hasData
  /\ ~inspectLog.informed[1].sheets[2].hasData
  /\ ~inspectLog.informed[1].sheets[3].hasData
  /\ inspectLog.informed[1].sheets[4].hasData

(***************************************************************************)
(* C21.  The rows of every table entry are the tableData of the document.  *)
(***************************************************************************)
\* generateWorkbook returned its buffer for at least one table entry
TablesGenerated == Generation /\ Len(arg.tableConfigs) >= 1

\* the top-level field tableData of the document
TableSource(a) == GetProp(a.jsonData, "tableData")

\* the field holds a non-empty array of rows
Filled(a) == TableSource(a).t = "arr" /\ Len(TableSource(a).a) > 0

\* the run of the call when its first n table entries are done
AfterEntries(a, n) ==
  TableLoop(ProcessMappings(LoadStep(a.templateBuffer), a.jsonData, a.mappingConfig, a.fault),
            a.jsonData, SubSeq(a.tableConfigs, 1, n), 1)

\* the sheet of entry n when the entry is done
SheetOfEntry(a, n) ==
  AfterEntries(a, n).wb.sheets[getWorksheet(AfterEntries(a, n).wb, a.tableConfigs[n].sheet)]

\* the values entry n left in its data cells
ReceivedCells(a, n) ==
  [i \in 1..Len(TableSource(a).a), j \in 1..Len(a.tableConfigs[n].columns) |->
     CellAt(SheetOfEntry(a, n),
            <<StartRow(a.tableConfigs[n]) + i, StartCol(a.tableConfigs[n]) + j - 1>>).value]

\* the document with every field but tableData removed
OnlyTableData(doc) ==
  JObj([key \in (DOMAIN doc.o) \cap {"tableData"} |-> doc.o[key]])

\* the call of the state on the document without its other fields
WithoutOtherFields(a) ==
  generateWorkbook(OnlyTableData(a.jsonData), a.mappingConfig, a.tableConfigs,
                   a.templateBuffer, a.options, a.fault)

\* C21: in a call of generateWorkbook that returns a buffer, every table
\* entry is filled from the top-level field tableData of the document:
\* each entry registers a table of its own name with one row per row of
\* tableData, whatever its sheet and tableName; two entries with equal
\* columns leave identical values in their data cells and register
\* identical rows; and the tables (and, without mappings, the whole
\* workbook) are the same when every other field of the document is removed.
C21_TablesFromTableData ==
  TablesGenerated =>
    /\ Filled(arg) =>
          /\ \A n \in 1..Len(arg.tableConfigs) :
                /\ Len(SheetOfEntry(arg, n).tables) >= 1
                /\ LastTable(SheetOfEntry(arg, n)).name = arg.tableConfigs[n].tableName
                /\ Len(LastTable(SheetOfEntry(arg, n)).rows) = Len(TableSource(arg).a)
          /\ \A m, n \in 1..Len(arg.tableConfigs) :
                arg.tableConfigs[m].columns = arg.tableConfigs[n].columns =>
                  /\ ReceivedCells(arg, m) = ReceivedCells(arg, n)
                  /\ LastTable(SheetOfEntry(arg, m)).rows = LastTable(SheetOfEntry(arg, n)).rows
    /\ WithoutOtherFields(arg).outcome = "buffer"
    /\ Len(WithoutOtherFields(arg).wb.sheets) = Len(out.wb.sheets)
    /\ \A k \in 1..Len(out.wb.sheets) :
          WithoutOtherFields(arg).wb.sheets[k].tables = out.wb.sheets[k].tables
    /\ arg.mappingConfig.items = <<>> => WithoutOtherFields(arg).wb = out.wb

\* three entries with the same columns, two on one sheet and one on
\* another, were filled from a document with fields named after them
C21_Witness ==
  /\ TablesGenerated
  /\ arg.jsonData = DocRows
  /\ arg.tableConfigs = <<TabSales, TabStock, TabCopy>>
  /\ Len(out.wb.sheets) = 2
  /\ Len(out.wb.sheets[1].tables) = 2
  /\ Len(out.wb.sheets[2].tables) = 1
  /\ out.wb.sheets[2].tables[1].rows = out.wb.sheets[1].tables[1].rows
  /\ CellAt(out.wb.sheets[2], <<2, 1>>).value = JNum(1)
  /\ CellAt(out.wb.sheets[2], <<3, 2>>).value = JNum(4)

(***************************************************************************)
(* C22.  A table entry without data writes nothing.                        *)
(***************************************************************************)
\* a data set that is absent, null or an array without rows
EmptyData(tableData) ==
  \/ tableData \in {Undefined, JNull}
  \/ (tableData.t = "arr" /\ Len(tableData.a) = 0)

\* generateWorkbook reached its table entries with a document without rows
EntriesWithoutData ==
  /\ fn = "generateWorkbook"
  /\ Len(arg.tableConfigs) >= 1
  /\ EmptyData(TableSource(arg))
  /\ ~AfterEntries(arg, 0).failed

\* C22: createTable applied to an absent, null or empty data set returns
\* the sheet as it was given, whatever the start cell; and in
\* generateWorkbook every table entry of a document without rows leaves the
\* run as it was but for the sheet of the entry, added when the workbook
\* has none of that name: nothing is raised, and when the buffer is
\* returned every sheet that existed before the entries holds the cells and
\* tables it held, and the added sheets hold none.
C22_NoOpWithoutData ==
  /\ (fn = "createTable" /\ EmptyData(arg.tableData)) =>
        /\ ~out.thrown
        /\ out.sheet = arg.worksheet
  /\ EntriesWithoutData =>
        /\ \A n \in 1..Len(arg.tableConfigs) :
              AfterEntries(arg, n) =
                [AfterEntries(arg, n - 1) EXCEPT
                   !.steps = Append(@, <<"table", n>>),
                   !.wb = EnsureSheet(@, arg.tableConfigs[n].sheet)]
        /\ out.outcome = "buffer" =>
              /\ Len(out.wb.sheets) >= Len(AfterEntries(arg, 0).wb.sheets)
              /\ \A k \in 1..Len(out.wb.sheets) :
                    IF k <= Len(AfterEntries(arg, 0).wb.sheets)
                    THEN /\ out.wb.sheets[k].cells = AfterEntries(arg, 0).wb.sheets[k].cells
                         /\ out.wb.sheets[k].tables = AfterEntries(arg, 0).wb.sheets[k].tables
                    ELSE /\ out.wb.sheets[k].cells = NoCells
                         /\ out.wb.sheets[k].tables = <<>>
                         /\ \E n \in 1..Len(arg.tableConfigs) :
                               arg.tableConfigs[n].sheet = out.wb.sheets[k].name

\* three entries of a document with an empty tableData, one with a start
\* cell that cannot be read, left the table and the cells of the template
\* as they were and added the one sheet that was missing
C22_Witness ==
  /\ EntriesWithoutData
  /\ out.outcome = "buffer"
  /\ arg.jsonData = DocEmptyTable
  /\ arg.templateBuffer = XlsxBuffer(TemplateTabled)
  /\ arg.mappingConfig.items = <<>>
  /\ arg.tableConfigs = <<TabStock, TabBadStart, TabSales>>
  /\ Len(out.wb.sheets) = 2
  /\ out.wb.sheets[1].tables = TemplateTabled.sheets[1].tables
  /\ out.wb.sheets[1].cells = TemplateTabled.sheets[1].cells
  /\ out.wb.sheets[2].name = "Data"
  /\ out.wb.sheets[2].cells = NoCells

(***************************************************************************)
(* C23.  generateExcel sends one response on every path.                   *)
(***************************************************************************)
\* generateExcel was applied and has returned
HandlerReturned == fn = "generateExcel"

\* mode and fileName after the defaults of the destructuring
ModeOf(a) == IF a.body.mode = Undefined THEN JStr("download") ELSE a.body.mode

FileNameOf(a) == IF a.body.fileName = Undefined THEN "generated.xlsx" ELSE a.body.fileName.s

\* the one response the claim gives the call: r is the response, made the
\* result of generateWorkbook, sent the calls of sendEmailWithAttachment
ResponseOfPath(a, r, made, sent) ==
  IF made.outcome = "throw"
  THEN r.status = 500 /\ r.kind = "error" /\ r.message = made.message /\ sent = <<>>
  ELSE IF ModeOf(a) = JStr("download")
  THEN /\ sent = <<>>
       /\ IF FileNameOf(a) \in HeaderUnsafeNames
          THEN r.status = 500 /\ r.kind = "error"
          ELSE r.status = 200 /\ r.kind = "file" /\ r.buffer = made.buffer
  ELSE IF ModeOf(a) = JStr("email")
  THEN IF ~Truthy(a.body.emailAddress)
       THEN r.status = 400 /\ r.kind = "error" /\ sent = <<>>
       ELSE /\ Len(sent) = 1
            /\ sent[1].recipient = a.body.emailAddress.s
            /\ IF sent[1].result.thrown
               THEN r.status = 500 /\ r.kind = "error" /\ r.message = sent[1].result.message
               ELSE r.status = 200 /\ r.kind = "email" /\ r.recipient = a.body.emailAddress.s
  ELSE r.status = 200 /\ r.kind = "base64" /\ r.buffer = made.buffer /\ sent = <<>>

\* C23: every call of generateExcel makes one call of generateWorkbook and
\* sends exactly one response: the 500 when generateWorkbook, setHeader or
\* sendEmailWithAttachment throws, else the file in mode 'download', the 400
\* in mode 'email' without emailAddress, the email envelope in mode 'email'
\* when the mail was sent, and the base64 envelope in every other mode; and
\* on a body that validateExcelRequest accepted the mode is 'download' or
\* 'email' and the base64 envelope is not sent.
C23_OneResponse ==
  HandlerReturned =>
    /\ Len(out.responses) = 1
    /\ Len(out.gwCalls) = 1
    /\ ResponseOfPath(arg, out.responses[1], out.gwCalls[1].result, out.mailCalls)
    /\ arg.validated =>
          /\ ModeOf(arg) \in {JStr("download"), JStr("email")}
          /\ out.responses[1].kind # "base64"

\* a body with a mode outside the schema, as received, was answered with
\* the base64 envelope and nothing else
C23_Witness ==
  /\ HandlerReturned
  /\ ~arg.validated
  /\ arg.body.mode = JStr("base64")
  /\ Len(out.responses) = 1
  /\ out.responses[1].kind = "base64"
  /\ out.responses[1].status = 200
  /\ out.mailCalls = <<>>

====
